---- MODULE Spec2Model ----
(***************************************************************************)
(* swagger-jsdoc-express: the document-assembly pipeline.                  *)
(*                                                                         *)
(*   source text -> parseJSDoc -> parseSwaggerDocBlocks -> yamlOrJson      *)
(*               -> generateSwaggerV2Document -> SWAGGER_DOC               *)
(*                                                                         *)
(* JavaScript values are modelled as records [t, v]:                       *)
(*   t = "undefined" | "null" | "boolean" | "number" | "string"            *)
(*     | "array" | "object" | "function"                                   *)
(* A string is a sequence of one-character strings, so that trim(),        *)
(* toLowerCase(), startsWith(), substr() and the relational operators are  *)
(* computed and not assumed.  An object is the sequence of its own         *)
(* enumerable properties [k, val] in the order Object.keys() and for-in    *)
(* enumerate them (array indices ascending first, then the other keys in   *)
(* creation order).                                                        *)
(***************************************************************************)
EXTENDS Integers, Sequences, FiniteSets, TLC

(***************************************************************************)
(* Strings                                                                 *)
(***************************************************************************)

\* The characters of the model in ascending UTF-16 code unit order.
CharOrder ==
    << "\t", "\n", " ", "\"", "$", "'", ",", "-", ".", "/",
       "0", "1", "2", "3", "4", "5", "6", "7", "8", "9", ":",
       "A", "B", "C", "D", "E", "F", "G", "H", "I", "J", "K", "L", "M",
       "N", "O", "P", "Q", "R", "S", "T", "U", "V", "W", "X", "Y", "Z",
       "[", "\\", "]", "_",
       "a", "b", "c", "d", "e", "f", "g", "h", "i", "j", "k", "l", "m",
       "n", "o", "p", "q", "r", "s", "t", "u", "v", "w", "x", "y", "z",
       "{", "}" >>

CharSet == { CharOrder[i] : i \in 1..Len(CharOrder) }

\* The rank of a character: the order of the code units.
CharCode == [ c \in CharSet |-> CHOOSE i \in 1..Len(CharOrder) : CharOrder[i] = c ]

UpperChars ==
    << "A", "B", "C", "D", "E", "F", "G", "H", "I", "J", "K", "L", "M",
       "N", "O", "P", "Q", "R", "S", "T", "U", "V", "W", "X", "Y", "Z" >>

LowerChars ==
    << "a", "b", "c", "d", "e", "f", "g", "h", "i", "j", "k", "l", "m",
       "n", "o", "p", "q", "r", "s", "t", "u", "v", "w", "x", "y", "z" >>

DigitChars == << "0", "1", "2", "3", "4", "5", "6", "7", "8", "9" >>

WhiteSpace == { " ", "\t", "\n" }

LowerOf ==
    [ c \in CharSet |->
        IF \E i \in 1..Len(UpperChars) : UpperChars[i] = c
        THEN LowerChars[CHOOSE i \in 1..Len(UpperChars) : UpperChars[i] = c]
        ELSE c ]

\* String.prototype.toLowerCase
toLowerCase(s) == [ i \in 1..Len(s) |-> LowerOf[s[i]] ]

\* String.prototype.trim
trim(s) ==
    LET idx == { i \in 1..Len(s) : s[i] \notin WhiteSpace }
    IN  IF idx = {} THEN << >>
        ELSE LET lo == CHOOSE i \in idx : \A j \in idx : i <= j
                 hi == CHOOSE i \in idx : \A j \in idx : j <= i
             IN  SubSeq(s, lo, hi)

\* String.prototype.startsWith
startsWith(s, prefix) ==
    /\ Len(prefix) <= Len(s)
    /\ SubSeq(s, 1, Len(prefix)) = prefix

\* String.prototype.substr(from), from counted from 0
substr(s, from) == SubSeq(s, from + 1, Len(s))

\* x < y on two strings: the comparison of the code units
StrLess(x, y) ==
    \E i \in 1..(Len(y)) :
        /\ \A j \in 1..(i - 1) : j <= Len(x) /\ x[j] = y[j]
        /\ \/ i > Len(x)
           \/ CharCode[x[i]] < CharCode[y[i]]

DigitValue(c) == (CHOOSE i \in 1..Len(DigitChars) : DigitChars[i] = c) - 1

RECURSIVE DecimalValue(_)
DecimalValue(s) ==
    IF Len(s) = 0 THEN 0
    ELSE 10 * DecimalValue(SubSeq(s, 1, Len(s) - 1)) + DigitValue(s[Len(s)])

\* A property key that is an array index: the canonical decimal form of an
\* integer.  Such keys enumerate before every other key, in ascending order.
IsArrayIndex(k) ==
    /\ Len(k) > 0
    /\ \A i \in 1..Len(k) : \E d \in 1..Len(DigitChars) : DigitChars[d] = k[i]
    /\ (Len(k) > 1 => k[1] # "0")

RECURSIVE DecimalString(_)
DecimalString(n) ==
    IF n < 10 THEN << DigitChars[n + 1] >>
    ELSE Append(DecimalString(n \div 10), DigitChars[(n % 10) + 1])

(***************************************************************************)
(* Values                                                                  *)
(***************************************************************************)

Undefined == [t |-> "undefined", v |-> << >>]
Null      == [t |-> "null", v |-> << >>]
Bool(b)   == [t |-> "boolean", v |-> b]
Num(n)    == [t |-> "number", v |-> n]
Str(s)    == [t |-> "string", v |-> s]
Arr(es)   == [t |-> "array", v |-> es]
Obj(ps)   == [t |-> "object", v |-> ps]
\* An inherited member of Object.prototype, as obj[key] reads it.
Inherited == [t |-> "function", v |-> << >>]

False == Bool(FALSE)
EmptyObject == Obj(<< >>)

\* _.isNil
isNil(x) == x.t \in {"undefined", "null"}

\* ToBoolean, as `!x` and `x ? a : b` apply it
Truthy(x) ==
    CASE x.t \in {"undefined", "null"} -> FALSE
      [] x.t = "boolean" -> x.v
      [] x.t = "number" -> x.v # 0
      [] x.t = "string" -> Len(x.v) > 0
      [] OTHER -> TRUE

\* The own enumerable string-keyed properties of a value, in the order of
\* Object.keys(x) and of for (k in x): the properties of an object, the
\* elements of an array and the characters of a string under their indices.
OwnEntries(x) ==
    CASE x.t = "object" -> x.v
      [] x.t = "array" ->
            [ i \in 1..Len(x.v) |-> [k |-> DecimalString(i - 1), val |-> x.v[i]] ]
      [] x.t = "string" ->
            [ i \in 1..Len(x.v) |-> [k |-> DecimalString(i - 1), val |-> Str(<< x.v[i] >>)] ]
      [] OTHER -> << >>

OwnKeys(x) == LET es == OwnEntries(x) IN [ i \in 1..Len(es) |-> es[i].k ]

hasOwnProperty(x, key) == \E i \in 1..Len(OwnEntries(x)) : OwnEntries(x)[i].k = key

\* The names every plain object inherits from Object.prototype.
PrototypeKeys ==
    { << "c", "o", "n", "s", "t", "r", "u", "c", "t", "o", "r" >>,
      << "t", "o", "S", "t", "r", "i", "n", "g" >>,
      << "v", "a", "l", "u", "e", "O", "f" >>,
      << "h", "a", "s", "O", "w", "n", "P", "r", "o", "p", "e", "r", "t", "y" >> }

\* x[key]
Get(x, key) ==
    LET es == OwnEntries(x)
    IN  IF \E i \in 1..Len(es) : es[i].k = key
        THEN es[CHOOSE i \in 1..Len(es) : es[i].k = key].val
        ELSE IF x.t \in {"object", "array"} /\ key \in PrototypeKeys
             THEN Inherited
             ELSE Undefined

\* The place of a new key among the properties ps of an object.
InsertAt(ps, key) ==
    IF IsArrayIndex(key)
    THEN Cardinality({ i \in 1..Len(ps) :
                          /\ IsArrayIndex(ps[i].k)
                          /\ DecimalValue(ps[i].k) < DecimalValue(key) })
    ELSE Len(ps)

\* obj[key] = val on a plain object: an existing property keeps its place,
\* a new one is created (an array index among the indices, in ascending
\* order; any other key after all the existing ones).
Set(obj, key, val) ==
    LET ps == obj.v
    IN  IF \E i \in 1..Len(ps) : ps[i].k = key
        THEN [obj EXCEPT !.v = [ i \in 1..Len(ps) |->
                     IF ps[i].k = key THEN [k |-> key, val |-> val] ELSE ps[i] ]]
        ELSE LET n == InsertAt(ps, key)
             IN  [obj EXCEPT !.v = SubSeq(ps, 1, n) \o << [k |-> key, val |-> val] >>
                                      \o SubSeq(ps, n + 1, Len(ps))]

\* A property: key and value.
P(key, val) == [k |-> key, val |-> val]

\* The object built by assigning the entries es, in order, to obj.
RECURSIVE SetAll(_, _)
SetAll(obj, es) ==
    IF Len(es) = 0 THEN obj
    ELSE SetAll(Set(obj, es[1].k, es[1].val), Tail(es))

(***************************************************************************)
(* String literals of the program                                          *)
(***************************************************************************)

S_swagger      == << "s", "w", "a", "g", "g", "e", "r" >>
S_path         == << "p", "a", "t", "h" >>
S_definition   == << "d", "e", "f", "i", "n", "i", "t", "i", "o", "n" >>
S_2_0          == << "2", ".", "0" >>
S_info         == << "i", "n", "f", "o" >>
S_host         == << "h", "o", "s", "t" >>
S_tags         == << "t", "a", "g", "s" >>
S_schemes      == << "s", "c", "h", "e", "m", "e", "s" >>
S_paths        == << "p", "a", "t", "h", "s" >>
S_definitions  == << "d", "e", "f", "i", "n", "i", "t", "i", "o", "n", "s" >>
S_externalDocs == << "e", "x", "t", "e", "r", "n", "a", "l", "D", "o", "c", "s" >>
S_basePath     == << "b", "a", "s", "e", "P", "a", "t", "h" >>
S_name         == << "n", "a", "m", "e" >>
S_description  == << "d", "e", "s", "c", "r", "i", "p", "t", "i", "o", "n" >>
S_true         == << "t", "r", "u", "e" >>
S_false        == << "f", "a", "l", "s", "e" >>

(***************************************************************************)
(* utils                                                                   *)
(***************************************************************************)

\* toStringSafe(val), for the values the program passes to it (strings,
\* null, undefined, booleans and non-negative integers).
toStringSafe(val) ==
    CASE val.t = "string" -> val.v
      [] isNil(val) -> << >>
      [] val.t = "boolean" -> IF val.v THEN S_true ELSE S_false
      [] val.t = "number" -> DecimalString(val.v)
      [] OTHER -> << >>

normalizeString(val) == trim(toLowerCase(toStringSafe(val)))

isEmptyString(val) == normalizeString(val) = << >>

\* asArray(val): the elements that are neither null nor undefined.
asArray(val) ==
    LET es == IF val.t = "array" THEN val.v ELSE << val >>
    IN  SelectSeq(es, LAMBDA i : ~isNil(i))

\* compareValuesBy(x, y, i => normalizeString(i)) on two keys
compareValuesBy(x, y) ==
    LET VAL_X == normalizeString(Str(x))
        VAL_Y == normalizeString(Str(y))
    IN  IF VAL_X # VAL_Y
        THEN IF StrLess(VAL_X, VAL_Y) THEN -1
             ELSE IF StrLess(VAL_Y, VAL_X) THEN 1 ELSE 0
        ELSE 0

\* Array.prototype.sort((x, y) => compareValuesBy(x, y, ...)): a stable sort.
RECURSIVE SortKeys(_)
SortKeys(keys) ==
    IF Len(keys) <= 1 THEN keys
    ELSE LET sorted == SortKeys(SubSeq(keys, 1, Len(keys) - 1))
             x      == keys[Len(keys)]
             n      == Cardinality({ i \in 1..Len(sorted) :
                                        compareValuesBy(sorted[i], x) <= 0 })
         IN  SubSeq(sorted, 1, n) \o << x >> \o SubSeq(sorted, n + 1, Len(sorted))

\* sortObjectByKey(obj)
sortObjectByKey(obj) ==
    IF isNil(obj) THEN obj
    ELSE LET keys == SortKeys(OwnKeys(obj))
         IN  SetAll(EmptyObject,
                    [ i \in 1..Len(keys) |-> [k |-> keys[i], val |-> Get(obj, keys[i])] ])

(***************************************************************************)
(* deepmerge 4.x, as generate.ts calls it: deepMerge(target, source) with  *)
(* no options (arrayMerge = defaultArrayMerge, clone = true).              *)
(***************************************************************************)

\* What a thrown exception leaves in the place of a result.
Thrown == [t |-> "throw", v |-> << >>]

isMergeableObject(value) == value.t \in {"object", "array"}

emptyTarget(val) == IF val.t = "array" THEN Arr(<< >>) ELSE EmptyObject

\* `property in object`, false when the operator throws (no object)
propertyIsOnObject(object, property) ==
    /\ object.t \in {"object", "array", "function"}
    /\ \/ hasOwnProperty(object, property)
       \/ property \in PrototypeKeys

propertyIsUnsafe(target, key) ==
    /\ propertyIsOnObject(target, key)
    /\ ~hasOwnProperty(target, key)

RECURSIVE deepMerge(_, _)
RECURSIVE mergeObject(_, _)
RECURSIVE mergeSourceKeys(_, _, _, _)
RECURSIVE cloneUnlessOtherwiseSpecified(_)
RECURSIVE defaultArrayMerge(_, _)

cloneUnlessOtherwiseSpecified(value) ==
    IF isMergeableObject(value)
    THEN deepMerge(emptyTarget(value), value)
    ELSE value

\* target.concat(source).map(clone)
defaultArrayMerge(target, source) ==
    LET all == target.v \o source.v
    IN  Arr([ i \in 1..Len(all) |-> cloneUnlessOtherwiseSpecified(all[i]) ])

\* The loop of mergeObject over the keys of source, from index i on.
mergeSourceKeys(destination, target, es, i) ==
    IF i > Len(es) THEN destination
    ELSE LET key == es[i].k
             d   == IF propertyIsUnsafe(target, key)
                      THEN destination
                    ELSE IF propertyIsOnObject(target, key)
                              /\ isMergeableObject(es[i].val)
                      THEN Set(destination, key, deepMerge(Get(target, key), es[i].val))
                    ELSE Set(destination, key, cloneUnlessOtherwiseSpecified(es[i].val))
         IN  mergeSourceKeys(d, target, es, i + 1)

\* Object.keys(source) throws a TypeError when source is null or undefined.
mergeObject(target, source) ==
    IF isNil(source) THEN Thrown
    ELSE LET ts   == IF isMergeableObject(target) THEN OwnEntries(target) ELSE << >>
             dest == SetAll(EmptyObject,
                       [ i \in 1..Len(ts) |->
                           [k |-> ts[i].k, val |-> cloneUnlessOtherwiseSpecified(ts[i].val)] ])
         IN  mergeSourceKeys(dest, target, OwnEntries(source), 1)

deepMerge(target, source) ==
    LET sourceIsArray == source.t = "array"
        targetIsArray == target.t = "array"
    IN  IF sourceIsArray # targetIsArray
        THEN cloneUnlessOtherwiseSpecified(source)
        ELSE IF sourceIsArray
        THEN defaultArrayMerge(target, source)
        ELSE mergeObject(target, source)

(***************************************************************************)
(* JSON.parse(JSON.stringify(value))                                       *)
(***************************************************************************)

\* Mutant: the document is returned as built, without the JSON round trip.
JsonClone_Identity(x) == x

\* Mutant: `Object.assign({}, DOC)` without the properties JSON leaves out:
\* a new object whose values are the values of DOC themselves.
JsonClone_Shallow(x) ==
    IF x.t = "object"
    THEN SetAll(EmptyObject,
                SelectSeq(x.v, LAMBDA p : p.val.t \notin {"undefined", "function"}))
    ELSE x

\* JSON.stringify leaves out a property whose value is undefined or a
\* function and writes such an array element as null.
RECURSIVE JsonClone(_)
JsonClone(x) ==
    CASE x.t = "object" ->
            LET kept == SelectSeq(x.v, LAMBDA p : p.val.t \notin {"undefined", "function"})
            IN  SetAll(EmptyObject,
                       [ i \in 1..Len(kept) |-> [k |-> kept[i].k, val |-> JsonClone(kept[i].val)] ])
      [] x.t = "array" ->
            Arr([ i \in 1..Len(x.v) |->
                    IF x.v[i].t \in {"undefined", "function"} THEN Null ELSE JsonClone(x.v[i]) ])
      [] OTHER -> x

(***************************************************************************)
(* Scalars of YAML 1.1 as js-yaml 3.x resolves them (the implicit types of *)
(* DEFAULT_SAFE_SCHEMA: null, bool, int, float).  The texts of the model   *)
(* hold no timestamp, no base-60 number and no merge key.                  *)
(***************************************************************************)

L_null  == << "n", "u", "l", "l" >>
L_true  == << "t", "r", "u", "e" >>
L_false == << "f", "a", "l", "s", "e" >>

Spaces(n) == [ i \in 1..n |-> " " ]

CharsOf(seq) == { seq[i] : i \in 1..Len(seq) }

DecDigits == CharsOf(DigitChars)
OctDigits == { "0", "1", "2", "3", "4", "5", "6", "7" }
BinDigits == { "0", "1" }
HexDigits ==
    DecDigits \cup { "a", "b", "c", "d", "e", "f", "A", "B", "C", "D", "E", "F" }

\* The digits of one base with `_` between them, not at the end.
DigitsOf(t, digits) ==
    /\ \A i \in 1..Len(t) : t[i] \in digits \cup { "_" }
    /\ \E i \in 1..Len(t) : t[i] \in digits
    /\ t[Len(t)] # "_"

Unsigned(s) == IF Len(s) > 0 /\ s[1] = "-" THEN Tail(s) ELSE s

\* resolveYamlNull, resolveYamlBoolean
YamlNull(s) ==
    s \in { << "~" >>, L_null, << "N", "u", "l", "l" >>, << "N", "U", "L", "L" >> }

YamlBool(s) ==
    s \in { L_true, << "T", "r", "u", "e" >>, << "T", "R", "U", "E" >>,
            L_false, << "F", "a", "l", "s", "e" >>, << "F", "A", "L", "S", "E" >> }

\* resolveYamlInteger
YamlInt(s) ==
    LET body == Unsigned(s)
    IN  /\ Len(body) > 0
        /\ IF body[1] = "0"
           THEN \/ Len(body) = 1
                \/ /\ Len(body) > 1
                   /\ CASE body[2] = "b" -> DigitsOf(SubSeq(body, 3, Len(body)), BinDigits)
                        [] body[2] = "x" -> DigitsOf(SubSeq(body, 3, Len(body)), HexDigits)
                        [] OTHER -> DigitsOf(Tail(body), OctDigits)
           ELSE body[1] # "_" /\ DigitsOf(body, DecDigits)

\* YAML_FLOAT_PATTERN:  [-+]?(0|[1-9][0-9_]*)(\.[0-9_]*)?([eE][-+]?[0-9]+)?
\*                   |  \.[0-9_]+([eE][-+]?[0-9]+)?
\*                   |  [-+]?\.(inf|Inf|INF)  |  \.(nan|NaN|NAN)
YamlFloat(s) ==
    LET body   == Unsigned(s)
        es     == { i \in 1..Len(s) : s[i] \in { "e", "E" } }
        cut    == IF es = {} THEN Len(s) + 1 ELSE CHOOSE i \in es : \A j \in es : i <= j
        mant   == SubSeq(s, 1, cut - 1)
        exp    == Unsigned(SubSeq(s, cut + 1, Len(s)))
        expOk  == es = {} \/ (Len(exp) > 0 /\ \A i \in 1..Len(exp) : exp[i] \in DecDigits)
        um     == Unsigned(mant)
        dots   == { i \in 1..Len(um) : um[i] = "." }
        dot    == IF dots = {} THEN Len(um) + 1 ELSE CHOOSE i \in dots : \A j \in dots : i <= j
        int    == SubSeq(um, 1, dot - 1)
        frac   == SubSeq(um, dot + 1, Len(um))
        intOk  == /\ Len(int) > 0
                  /\ \/ int = << "0" >>
                     \/ /\ int[1] \in DecDigits \ { "0" }
                        /\ \A i \in 1..Len(int) : int[i] \in DecDigits \cup { "_" }
        fracOk == \A i \in 1..Len(frac) : frac[i] \in DecDigits \cup { "_" }
    IN  \/ body \in { << ".", "i", "n", "f" >>, << ".", "I", "n", "f" >>,
                      << ".", "I", "N", "F" >> }
        \/ s \in { << ".", "n", "a", "n" >>, << ".", "N", "a", "N" >>,
                   << ".", "N", "A", "N" >> }
        \/ /\ Len(s) > 0
           /\ s[Len(s)] # "_"
           /\ expOk
           /\ \/ intOk /\ fracOk
              \/ mant = um /\ Len(int) = 0 /\ Len(frac) > 0 /\ fracOk

\* testImplicitResolving: a plain scalar of this text is not a string.
ResolvesImplicitly(s) == YamlNull(s) \/ YamlBool(s) \/ YamlInt(s) \/ YamlFloat(s)

WithoutUnderscores(t) == SelectSeq(t, LAMBDA c : c # "_")

HexOrder ==
    << "0", "1", "2", "3", "4", "5", "6", "7", "8", "9", "a", "b", "c", "d", "e", "f" >>

\* parseInt(t, base): the value of the digits t in the base 2, 8, 10 or 16
RECURSIVE BaseValue(_, _)
BaseValue(t, base) ==
    IF Len(t) = 0 THEN 0
    ELSE base * BaseValue(SubSeq(t, 1, Len(t) - 1), base)
            + (CHOOSE d \in 1..16 : HexOrder[d] = LowerOf[t[Len(t)]]) - 1

\* constructYamlInteger
YamlIntValue(s) ==
    LET body == WithoutUnderscores(Unsigned(s))
        sign == IF s[1] = "-" THEN -1 ELSE 1
    IN  sign * ( CASE Len(body) > 1 /\ body[1] = "0" /\ body[2] = "b" ->
                         BaseValue(SubSeq(body, 3, Len(body)), 2)
                   [] Len(body) > 1 /\ body[1] = "0" /\ body[2] = "x" ->
                         BaseValue(SubSeq(body, 3, Len(body)), 16)
                   [] Len(body) > 1 /\ body[1] = "0" ->
                         BaseValue(body, 8)
                   [] OTHER -> BaseValue(body, 10) )

\* constructYamlFloat: a float that is an integer is that number; any other
\* one is a number the integers of the model do not hold, kept as its text.
YamlFloatValue(s) ==
    LET text   == WithoutUnderscores(toLowerCase(s))
        body   == Unsigned(text)
        sign   == IF text[1] = "-" THEN -1 ELSE 1
        dots   == { i \in 1..Len(body) : body[i] = "." }
        dot    == IF dots = {} THEN Len(body) + 1 ELSE CHOOSE i \in dots : TRUE
        int    == SubSeq(body, 1, dot - 1)
        frac   == SubSeq(body, dot + 1, Len(body))
    IN  IF /\ \A i \in 1..Len(int) : int[i] \in DecDigits
           /\ \A i \in 1..Len(frac) : frac[i] = "0"
           /\ Len(int) > 0
        THEN Num(sign * BaseValue(int, 10))
        ELSE Num(text)

\* The value of a plain scalar.
plainScalar(s) ==
    CASE YamlNull(s) -> Null
      [] YamlBool(s) -> Bool(toLowerCase(s) = L_true)
      [] YamlInt(s) -> Num(YamlIntValue(s))
      [] YamlFloat(s) -> YamlFloatValue(s)
      [] OTHER -> Str(s)

\* String(n) of a number
NumberString(n) ==
    IF n \in Int
    THEN IF n < 0 THEN << "-" >> \o DecimalString(-n) ELSE DecimalString(n)
    ELSE n

\* String(value) of a scalar: the property name a scalar key becomes.
ScalarString(value) ==
    CASE value.t = "string" -> value.v
      [] value.t = "null" -> L_null
      [] value.t = "boolean" -> IF value.v THEN L_true ELSE L_false
      [] value.t = "number" -> NumberString(value.v)

\* The texts ts joined with sep between them.
RECURSIVE Join(_, _)
Join(ts, sep) ==
    IF Len(ts) = 0 THEN << >>
    ELSE IF Len(ts) = 1 THEN ts[1]
    ELSE ts[1] \o sep \o Join(Tail(ts), sep)

(***************************************************************************)
(* JSON.stringify(value, null, space)                                      *)
(***************************************************************************)

RECURSIVE jsonQuoteChars(_)
jsonQuoteChars(s) ==
    IF Len(s) = 0 THEN << >>
    ELSE ( CASE s[1] = "\"" -> << "\\", "\"" >>
             [] s[1] = "\\" -> << "\\", "\\" >>
             [] s[1] = "\n" -> << "\\", "n" >>
             [] s[1] = "\t" -> << "\\", "t" >>
             [] OTHER -> << s[1] >> ) \o jsonQuoteChars(Tail(s))

\* A string as JSON writes it.
jsonQuote(s) == << "\"" >> \o jsonQuoteChars(s) \o << "\"" >>

\* The text of value, at the indentation indent, with gap more spaces for
\* each level (gap = 0: the text on one line, without any space).  A
\* property whose value is undefined or a function is left out and such an
\* array element is written as null.
RECURSIVE jsonStringify(_, _, _)
jsonStringify(value, gap, indent) ==
    LET open(ch)  == IF gap = 0 THEN << ch >>
                     ELSE << ch, "\n" >> \o Spaces(indent + gap)
        close(ch) == IF gap = 0 THEN << ch >>
                     ELSE << "\n" >> \o Spaces(indent) \o << ch >>
        comma     == IF gap = 0 THEN << "," >>
                     ELSE << ",", "\n" >> \o Spaces(indent + gap)
        colon     == IF gap = 0 THEN << ":" >> ELSE << ":", " " >>
    IN  CASE value.t = "null" -> L_null
          [] value.t = "boolean" -> IF value.v THEN L_true ELSE L_false
          [] value.t = "number" -> NumberString(value.v)
          [] value.t = "string" -> jsonQuote(value.v)
          [] value.t = "array" ->
                IF Len(value.v) = 0 THEN << "[", "]" >>
                ELSE open("[")
                     \o Join([ i \in 1..Len(value.v) |->
                                 IF value.v[i].t \in {"undefined", "function"} THEN L_null
                                 ELSE jsonStringify(value.v[i], gap, indent + gap) ], comma)
                     \o close("]")
          [] value.t = "object" ->
                LET kept == SelectSeq(value.v,
                                      LAMBDA p : p.val.t \notin {"undefined", "function"})
                IN  IF Len(kept) = 0 THEN << "{", "}" >>
                    ELSE open("{")
                         \o Join([ i \in 1..Len(kept) |->
                                     jsonQuote(kept[i].k) \o colon
                                        \o jsonStringify(kept[i].val, gap, indent + gap) ],
                                 comma)
                         \o close("}")

(***************************************************************************)
(* yaml.safeDump(value) of js-yaml 3.x with no options: block style, two   *)
(* spaces for each level.  The strings of the model hold no line feed and  *)
(* are shorter than the line width, so that no block scalar is written.    *)
(***************************************************************************)

\* DEPRECATED_BOOLEANS_SYNTAX
DeprecatedBooleans ==
    { << "y" >>, << "Y" >>, << "y", "e", "s" >>, << "Y", "e", "s" >>, << "Y", "E", "S" >>,
      << "o", "n" >>, << "O", "n" >>, << "O", "N" >>,
      << "n" >>, << "N" >>, << "n", "o" >>, << "N", "o" >>, << "N", "O" >>,
      << "o", "f", "f" >>, << "O", "f", "f" >>, << "O", "F", "F" >> }

\* isPrintable, isPlainSafeFirst and isPlainSafe on the characters of the model
isPrintable(c) == c \notin { "\t", "\n" }
isPlainSafe(c) == isPrintable(c) /\ c \notin { ",", "[", "]", "{", "}", ":" }
isPlainSafeFirst(c) ==
    isPrintable(c) /\ c \notin { " ", "-", ":", ",", "[", "]", "{", "}", "'", "\"" }

\* chooseScalarStyle for a string without a line feed
chooseScalarStyle(string) ==
    IF \E i \in 1..Len(string) : ~isPrintable(string[i]) THEN "double"
    ELSE IF /\ isPlainSafeFirst(string[1])
            /\ string[Len(string)] # " "
            /\ \A i \in 1..Len(string) : isPlainSafe(string[i])
            /\ ~ResolvesImplicitly(string)
         THEN "plain"
         ELSE "single"

RECURSIVE doubleQuotes(_)
doubleQuotes(s) ==
    IF Len(s) = 0 THEN << >>
    ELSE (IF s[1] = "'" THEN << "'", "'" >> ELSE << s[1] >>) \o doubleQuotes(Tail(s))

\* writeScalar
writeScalar(string) ==
    IF Len(string) = 0 THEN << "'", "'" >>
    ELSE IF string \in DeprecatedBooleans THEN << "'" >> \o string \o << "'" >>
    ELSE CASE chooseScalarStyle(string) = "plain" -> string
           [] chooseScalarStyle(string) = "single" ->
                 << "'" >> \o doubleQuotes(string) \o << "'" >>
           [] OTHER -> jsonQuote(string)

\* generateNextLine
generateNextLine(level) == << "\n" >> \o Spaces(2 * level)

\* writeNode(state, level, object, true, compact): the text of the node
RECURSIVE writeNode(_, _, _)
writeNode(level, object, compact) ==
    LET lead(i) == IF ~compact \/ i # 1 THEN generateNextLine(level) ELSE << >>
    IN  CASE object.t = "null" -> L_null
          [] object.t = "boolean" -> IF object.v THEN L_true ELSE L_false
          [] object.t = "number" -> NumberString(object.v)
          [] object.t = "string" -> writeScalar(object.v)
          [] object.t = "array" ->
                IF Len(object.v) = 0 THEN << "[", "]" >>
                ELSE Join([ i \in 1..Len(object.v) |->
                              lead(i) \o << "-", " " >>
                                 \o writeNode(level + 1, object.v[i], TRUE) ], << >>)
          [] object.t = "object" ->
                IF Len(object.v) = 0 THEN << "{", "}" >>
                ELSE Join([ i \in 1..Len(object.v) |->
                              LET value == writeNode(level + 1, object.v[i].val, FALSE)
                              IN  lead(i) \o writeScalar(object.v[i].k)
                                     \o (IF value[1] = "\n" THEN << ":" >>
                                         ELSE << ":", " " >>)
                                     \o value ], << >>)

\* A value js-yaml has a type for: undefined and functions have none.
RECURSIVE Dumpable(_)
Dumpable(value) ==
    CASE value.t \in {"undefined", "function"} -> FALSE
      [] value.t = "array" -> \A i \in 1..Len(value.v) : Dumpable(value.v[i])
      [] value.t = "object" -> \A i \in 1..Len(value.v) : Dumpable(value.v[i].val)
      [] OTHER -> TRUE

\* yaml.safeDump(value): the text, or Thrown ("unacceptable kind of an
\* object to dump")
yamlSafeDump(value) ==
    IF Dumpable(value) THEN writeNode(0, value, TRUE) \o << "\n" >> ELSE Thrown

(***************************************************************************)
(* Reading a text: the flow style of YAML, of which the texts JSON.parse   *)
(* accepts are the strict part (strict = TRUE: double-quoted strings and   *)
(* keys, the literals null, true and false, numbers, no repeated comma, a  *)
(* repeated key keeps its last value).  A reader returns the value and the *)
(* index after it, or ReadError where the library throws.  A scalar is on  *)
(* one line; anchors, tags, comments and complex keys are not in the       *)
(* texts of the model.                                                     *)
(***************************************************************************)

ReadError == [ok |-> FALSE, val |-> Undefined, next |-> 0]
Read(val, next) == [ok |-> TRUE, val |-> val, next |-> next]

FlowIndicators == { ",", "[", "]", "{", "}" }

\* The index of the first character from i on that is not white space.
skipSeparationSpace(s, i) ==
    CHOOSE j \in i..(Len(s) + 1) :
        /\ \A k \in i..(j - 1) : s[k] \in WhiteSpace
        /\ j = Len(s) + 1 \/ s[j] \notin WhiteSpace

\* s[from..to] without the spaces at its end
TrimRight(s, from, to) ==
    LET idx == { k \in from..to : s[k] \notin WhiteSpace }
    IN  IF idx = {} THEN << >>
        ELSE SubSeq(s, from, CHOOSE k \in idx : \A l \in idx : l <= k)

\* The string after an opening double quote at i - 1.
RECURSIVE readDoubleQuotedScalar(_, _, _, _)
readDoubleQuotedScalar(s, i, acc, strict) ==
    IF i > Len(s) THEN ReadError
    ELSE CASE s[i] = "\"" -> Read(Str(acc), i + 1)
           [] s[i] = "\\" ->
                 IF i + 1 > Len(s) THEN ReadError
                 ELSE CASE s[i + 1] \in { "\"", "\\", "/" } ->
                               readDoubleQuotedScalar(s, i + 2, Append(acc, s[i + 1]), strict)
                        [] s[i + 1] = "n" ->
                               readDoubleQuotedScalar(s, i + 2, Append(acc, "\n"), strict)
                        [] s[i + 1] = "t" ->
                               readDoubleQuotedScalar(s, i + 2, Append(acc, "\t"), strict)
                        [] OTHER -> ReadError
           [] s[i] \in { "\n", "\t" } ->
                 IF strict THEN ReadError
                 ELSE readDoubleQuotedScalar(s, i + 1,
                          Append(acc, IF s[i] = "\n" THEN " " ELSE s[i]), strict)
           [] OTHER -> readDoubleQuotedScalar(s, i + 1, Append(acc, s[i]), strict)

\* The string after an opening single quote at i - 1.
RECURSIVE readSingleQuotedScalar(_, _, _)
readSingleQuotedScalar(s, i, acc) ==
    IF i > Len(s) THEN ReadError
    ELSE IF s[i] = "'"
         THEN IF i < Len(s) /\ s[i + 1] = "'"
              THEN readSingleQuotedScalar(s, i + 2, Append(acc, "'"))
              ELSE Read(Str(acc), i + 1)
         ELSE readSingleQuotedScalar(s, i + 1,
                  Append(acc, IF s[i] = "\n" THEN " " ELSE s[i]))

\* A `:` that ends a plain scalar of a flow collection.
IsFlowColon(s, j) ==
    /\ j <= Len(s)
    /\ s[j] = ":"
    /\ j = Len(s) \/ s[j + 1] \in WhiteSpace \cup FlowIndicators

\* The index after the plain scalar (strict: the literal) that begins at i.
plainEnd(s, i, strict) ==
    CHOOSE j \in i..(Len(s) + 1) :
        LET ends(k) == \/ k = Len(s) + 1
                       \/ s[k] \in FlowIndicators \cup { "\n" }
                       \/ IF strict THEN s[k] \in WhiteSpace \cup { ":" }
                          ELSE IsFlowColon(s, k)
        IN  ends(j) /\ \A k \in i..(j - 1) : ~ends(k)

\* A number as JSON writes it.
JsonNumber(tok) ==
    /\ YamlFloat(tok)
    /\ \A i \in 1..Len(tok) : tok[i] # "_"
    /\ Unsigned(tok)[1] \in DecDigits
    /\ tok[Len(tok)] \in DecDigits
    /\ \A i \in 1..(Len(tok) - 1) :
           tok[i] = "." => tok[i + 1] \in DecDigits

\* The mapping of the one pair key: value, value being what was read.
PairOf(key, value) ==
    IF ~value.ok THEN ReadError
    ELSE Read(Obj(<< P(key, value.val) >>), value.next)

\* The scalar text, read up to the index j.
plainToken(text, j, strict) ==
    IF text = << >> THEN ReadError
    ELSE IF ~strict THEN Read(plainScalar(text), j)
    ELSE CASE text = L_null -> Read(Null, j)
           [] text = L_true -> Read(Bool(TRUE), j)
           [] text = L_false -> Read(Bool(FALSE), j)
           [] JsonNumber(text) -> Read(YamlFloatValue(text), j)
           [] OTHER -> ReadError

plainBetween(s, i, j, strict) == plainToken(TrimRight(s, i, j - 1), j, strict)

\* The scalar that is neither quoted nor a collection.
readPlainScalar(s, i, strict) == plainBetween(s, i, plainEnd(s, i, strict), strict)

RECURSIVE readFlowNode(_, _, _)
RECURSIVE readFlowMapping(_, _, _, _)
RECURSIVE flowMappingKey(_, _, _, _)
RECURSIVE flowMappingColon(_, _, _, _, _)
RECURSIVE flowMappingAfterColon(_, _, _, _, _)
RECURSIVE flowMappingValue(_, _, _, _, _)
RECURSIVE flowMappingSeparator(_, _, _, _)
RECURSIVE flowMappingNextKey(_, _, _, _)
RECURSIVE readFlowSequence(_, _, _, _)
RECURSIVE flowSequenceNode(_, _, _, _)
RECURSIVE flowSequencePair(_, _, _, _, _)
RECURSIVE flowSequencePairValue(_, _, _, _, _)
RECURSIVE flowSequenceEntry(_, _, _, _)
RECURSIVE flowSequenceSeparator(_, _, _, _)
RECURSIVE flowSequenceNext(_, _, _, _)

\* The node whose first character is at i.
readFlowNode(s, i, strict) ==
    IF i > Len(s) THEN ReadError
    ELSE CASE s[i] = "{" ->
                 readFlowMapping(s, skipSeparationSpace(s, i + 1), EmptyObject, strict)
           [] s[i] = "[" ->
                 readFlowSequence(s, skipSeparationSpace(s, i + 1), << >>, strict)
           [] s[i] = "\"" -> readDoubleQuotedScalar(s, i + 1, << >>, strict)
           [] s[i] = "'" /\ ~strict -> readSingleQuotedScalar(s, i + 1, << >>)
           [] OTHER -> readPlainScalar(s, i, strict)

\* The rest of a mapping, from a key or the closing brace at i on.
readFlowMapping(s, i, acc, strict) ==
    IF i > Len(s) THEN ReadError
    ELSE IF s[i] = "}" THEN Read(acc, i + 1)
    ELSE IF s[i] \in FlowIndicators \/ (strict /\ s[i] # "\"") THEN ReadError
    ELSE flowMappingKey(s, IF IsFlowColon(s, i) THEN Read(Null, i)
                           ELSE readFlowNode(s, i, strict),
                        acc, strict)

\* The key is read: a colon is looked for at j.
flowMappingKey(s, keyNode, acc, strict) ==
    IF ~keyNode.ok THEN ReadError
    ELSE flowMappingColon(s, ScalarString(keyNode.val),
                          skipSeparationSpace(s, keyNode.next), acc, strict)

\* Without a colon at j the key has the value null (not in JSON).
flowMappingColon(s, key, j, acc, strict) ==
    IF j <= Len(s) /\ s[j] = ":"
    THEN flowMappingAfterColon(s, key, skipSeparationSpace(s, j + 1), acc, strict)
    ELSE IF strict THEN ReadError
    ELSE flowMappingValue(s, key, Read(Null, j), acc, strict)

\* A colon followed by `,` or `}` gives the value null (not in JSON).
flowMappingAfterColon(s, key, k, acc, strict) ==
    IF strict /\ k <= Len(s) /\ s[k] \in { ",", "}" } THEN ReadError
    ELSE flowMappingValue(s, key,
                          IF k <= Len(s) /\ s[k] \in { ",", "}" } THEN Read(Null, k)
                          ELSE readFlowNode(s, k, strict),
                          acc, strict)

\* The value is read: in YAML a key that is there already is an error, in
\* JSON the later value replaces the earlier one.
flowMappingValue(s, key, valNode, acc, strict) ==
    IF ~valNode.ok THEN ReadError
    ELSE IF ~strict /\ hasOwnProperty(acc, key) THEN ReadError
    ELSE flowMappingSeparator(s, skipSeparationSpace(s, valNode.next),
                              Set(acc, key, valNode.val), strict)

\* After a pair: the closing brace, or a comma.
flowMappingSeparator(s, m, acc, strict) ==
    IF m > Len(s) THEN ReadError
    ELSE IF s[m] = "}" THEN Read(acc, m + 1)
    ELSE IF s[m] # "," THEN ReadError
    ELSE flowMappingNextKey(s, skipSeparationSpace(s, m + 1), acc, strict)

\* After a comma: in JSON a key has to follow.
flowMappingNextKey(s, m, acc, strict) ==
    IF strict /\ (m > Len(s) \/ s[m] # "\"") THEN ReadError
    ELSE readFlowMapping(s, m, acc, strict)

\* The rest of a sequence, from an entry or the closing bracket at i on.  In
\* YAML an entry `key: value` is a mapping of one pair.
readFlowSequence(s, i, acc, strict) ==
    IF i > Len(s) THEN ReadError
    ELSE IF s[i] = "]" THEN Read(Arr(acc), i + 1)
    ELSE IF s[i] = "," THEN ReadError
    ELSE flowSequenceNode(s, readFlowNode(s, i, strict), acc, strict)

flowSequenceNode(s, node, acc, strict) ==
    IF ~node.ok THEN ReadError
    ELSE flowSequencePair(s, node, skipSeparationSpace(s, node.next), acc, strict)

\* The node is an entry, or with a colon at j the key of a pair.
flowSequencePair(s, node, j, acc, strict) ==
    IF strict \/ ~IsFlowColon(s, j) THEN flowSequenceEntry(s, node, acc, strict)
    ELSE IF node.val.t \in { "array", "object" } THEN ReadError
    ELSE flowSequencePairValue(s, ScalarString(node.val), skipSeparationSpace(s, j + 1),
                               acc, strict)

flowSequencePairValue(s, key, k, acc, strict) ==
    flowSequenceEntry(s, PairOf(key, IF k <= Len(s) /\ s[k] \in { ",", "]" }
                                     THEN Read(Null, k)
                                     ELSE readFlowNode(s, k, strict)),
                      acc, strict)

flowSequenceEntry(s, entry, acc, strict) ==
    IF ~entry.ok THEN ReadError
    ELSE flowSequenceSeparator(s, skipSeparationSpace(s, entry.next),
                               Append(acc, entry.val), strict)

\* After an entry: the closing bracket, or a comma.
flowSequenceSeparator(s, m, acc, strict) ==
    IF m > Len(s) THEN ReadError
    ELSE IF s[m] = "]" THEN Read(Arr(acc), m + 1)
    ELSE IF s[m] # "," THEN ReadError
    ELSE flowSequenceNext(s, skipSeparationSpace(s, m + 1), acc, strict)

\* After a comma: in JSON an entry has to follow.
flowSequenceNext(s, m, acc, strict) ==
    IF strict /\ m <= Len(s) /\ s[m] = "]" THEN ReadError
    ELSE readFlowSequence(s, m, acc, strict)

\* The node, when nothing but white space follows it.
flowDocumentEnd(s, node) ==
    IF node.ok /\ skipSeparationSpace(s, node.next) = Len(s) + 1 THEN node ELSE ReadError

\* The text is one node with nothing but white space around it.
readFlowDocument(s, strict) ==
    flowDocumentEnd(s, readFlowNode(s, skipSeparationSpace(s, 1), strict))

(***************************************************************************)
(* Reading a text: the block style of YAML.  A text is read line by line;  *)
(* a line is [indent, text], the text without the spaces around it.  The   *)
(* value of a key or of a sequence entry is on the line of the entry (a    *)
(* scalar, or a flow collection on one line) or on the lines below it, at  *)
(* a deeper indentation.                                                   *)
(***************************************************************************)

\* The k-th line of s, k >= 1
LineOf(s, k) ==
    LET nl     == { i \in 1..Len(s) : s[i] = "\n" }
        nth(m) == CHOOSE i \in nl : Cardinality({ j \in nl : j < i }) = m - 1
        from   == IF k = 1 THEN 1 ELSE nth(k - 1) + 1
        to     == IF k = Cardinality(nl) + 1 THEN Len(s) ELSE nth(k) - 1
        first  == skipSeparationSpace(s, from)
    IN  IF first > to THEN [indent |-> 0, text |-> << >>]
        ELSE [indent |-> first - from, text |-> TrimRight(s, first, to)]

\* The lines of s that are not blank
LinesOf(s) ==
    LET count == Cardinality({ i \in 1..Len(s) : s[i] = "\n" }) + 1
    IN  SelectSeq([ k \in 1..count |-> LineOf(s, k) ], LAMBDA l : l.text # << >>)

\* `- ` begins an entry of a block sequence
IsSeqEntry(t) == t[1] = "-" /\ (Len(t) = 1 \/ t[2] = " ")

\* A `:` that ends a key of a block mapping
IsBlockColon(t, j) ==
    /\ j <= Len(t)
    /\ t[j] = ":"
    /\ j = Len(t) \/ t[j + 1] \in { " ", "\t" }

NoKey == [ok |-> FALSE, key |-> << >>, rest |-> << >>]

\* The key of the line t and what follows its colon, when the line is an
\* entry of a block mapping
blockKey(t) ==
    IF t[1] \in { "\"", "'" }
    THEN LET q == IF t[1] = "\"" THEN readDoubleQuotedScalar(t, 2, << >>, FALSE)
                  ELSE readSingleQuotedScalar(t, 2, << >>)
             j == skipSeparationSpace(t, q.next)
         IN  IF q.ok /\ IsBlockColon(t, j)
             THEN [ok |-> TRUE, key |-> q.val.v, rest |-> trim(SubSeq(t, j + 1, Len(t)))]
             ELSE NoKey
    ELSE IF t[1] \in FlowIndicators THEN NoKey
    ELSE LET cs == { j \in 1..Len(t) : IsBlockColon(t, j) }
         IN  IF cs = {} THEN NoKey
             ELSE LET j    == CHOOSE c \in cs : \A d \in cs : c <= d
                      text == TrimRight(t, 1, j - 1)
                  IN  [ ok   |-> TRUE,
                        key  |-> IF text = << >> THEN L_null
                                 ELSE ScalarString(plainScalar(text)),
                        rest |-> trim(SubSeq(t, j + 1, Len(t))) ]

\* The value written on one line: a flow collection, a quoted or a plain scalar
readInline(t) ==
    CASE t[1] \in { "{", "[", "\"", "'" } -> readFlowDocument(t, FALSE)
      [] t[1] \in { ",", "]", "}" } -> ReadError
      [] IsSeqEntry(t) -> ReadError
      [] \E j \in 1..Len(t) : IsBlockColon(t, j) -> ReadError
      [] OTHER -> Read(plainScalar(t), Len(t) + 1)

RECURSIVE readBlockNode(_, _)
RECURSIVE readBlockSequence(_, _, _, _)
RECURSIVE blockSequenceEntry(_, _, _, _, _)
RECURSIVE blockSequenceItem(_, _, _, _)
RECURSIVE readBlockMapping(_, _, _, _)
RECURSIVE blockMappingEntry(_, _, _, _, _)
RECURSIVE blockMappingValue(_, _, _, _, _)

\* The value read on one line is a node that ends with its line.
inlineNode(r, next) == IF r.ok THEN Read(r.val, next) ELSE ReadError

\* The node that begins on line i, and the index of the line after it
readBlockNode(lines, i) ==
    IF IsSeqEntry(lines[i].text)
    THEN readBlockSequence(lines, i, lines[i].indent, << >>)
    ELSE IF blockKey(lines[i].text).ok
    THEN readBlockMapping(lines, i, lines[i].indent, EmptyObject)
    ELSE inlineNode(readInline(lines[i].text), i + 1)

\* The entries of a block sequence at the indentation n, from line i on
readBlockSequence(lines, i, n, acc) ==
    IF i > Len(lines) \/ lines[i].indent < n THEN Read(Arr(acc), i)
    ELSE IF lines[i].indent = n /\ ~IsSeqEntry(lines[i].text) THEN Read(Arr(acc), i)
    ELSE IF lines[i].indent > n THEN ReadError
    ELSE blockSequenceEntry(lines, i, n, acc, skipSeparationSpace(lines[i].text, 2))

\* The entry of line i, whose text after `- ` begins at k: a node on the
\* line, a node on the lines below, or null.
blockSequenceEntry(lines, i, n, acc, k) ==
    IF k > Len(lines[i].text) /\ ~(i < Len(lines) /\ lines[i + 1].indent > n)
    THEN blockSequenceItem(lines, n, acc, Read(Null, i + 1))
    ELSE blockSequenceItem(lines, n, acc,
             readBlockNode(
                 IF k > Len(lines[i].text) THEN lines
                 ELSE [lines EXCEPT ![i] =
                          [ indent |-> n + k - 1,
                            text   |-> SubSeq(lines[i].text, k, Len(lines[i].text)) ]],
                 IF k > Len(lines[i].text) THEN i + 1 ELSE i))

blockSequenceItem(lines, n, acc, item) ==
    IF ~item.ok THEN ReadError
    ELSE readBlockSequence(lines, item.next, n, Append(acc, item.val))

\* The entries of a block mapping at the indentation n, from line i on
readBlockMapping(lines, i, n, acc) ==
    IF i > Len(lines) \/ lines[i].indent < n THEN Read(acc, i)
    ELSE IF lines[i].indent > n THEN ReadError
    ELSE blockMappingEntry(lines, i, n, acc, blockKey(lines[i].text))

\* The entry of line i with the key e: its value is on the line, on the
\* lines below (a sequence may be at the indentation of the key), or null.
blockMappingEntry(lines, i, n, acc, e) ==
    IF ~e.ok THEN ReadError
    ELSE blockMappingValue(lines, n, acc, e.key,
             IF e.rest # << >> THEN inlineNode(readInline(e.rest), i + 1)
             ELSE IF i < Len(lines) /\ lines[i + 1].indent > n
             THEN readBlockNode(lines, i + 1)
             ELSE IF /\ i < Len(lines)
                     /\ lines[i + 1].indent = n
                     /\ IsSeqEntry(lines[i + 1].text)
             THEN readBlockSequence(lines, i + 1, n, << >>)
             ELSE Read(Null, i + 1))

\* A key that is there already is an error.
blockMappingValue(lines, n, acc, key, value) ==
    IF ~value.ok \/ hasOwnProperty(acc, key) THEN ReadError
    ELSE readBlockMapping(lines, value.next, n, Set(acc, key, value.val))

\* A plain scalar over several lines: the lines are folded into one.
IsPlainLine(t) ==
    /\ t[1] \notin FlowIndicators \cup { "\"", "'" }
    /\ ~IsSeqEntry(t)
    /\ ~blockKey(t).ok

\* The node, when it ends with the last line.
blockDocumentEnd(lines, node) ==
    IF node.ok /\ node.next = Len(lines) + 1 THEN node ELSE ReadError

\* The document of the lines of s.
documentOf(s, lines) ==
    IF lines = << >> THEN Read(Undefined, 1)
    ELSE IF lines[1].text[1] \in { "{", "[" } THEN readFlowDocument(s, FALSE)
    ELSE IF Len(lines) > 1 /\ \A i \in 1..Len(lines) : IsPlainLine(lines[i].text)
    THEN Read(plainScalar(Join([ i \in 1..Len(lines) |-> lines[i].text ], << " " >>)), 1)
    ELSE blockDocumentEnd(lines, readBlockNode(lines, 1))

\* The document of a text: a flow collection, a block collection or a scalar.
readDocument(s) == documentOf(s, LinesOf(s))

(***************************************************************************)
(* The serialized payloads of the model: the text of a tag's body.         *)
(***************************************************************************)

\* {/users: {get: a}}
TEXT_usersGet ==
    << "{", "/", "u", "s", "e", "r", "s", ":", " ", "{", "g", "e", "t", ":",
       " ", "a", "}", "}" >>

\* {"/users ": {"post": "b"}}
TEXT_usersPost ==
    << "{", "\"", "/", "u", "s", "e", "r", "s", " ", "\"", ":", " ", "{",
       "\"", "p", "o", "s", "t", "\"", ":", " ", "\"", "b", "\"", "}", "}" >>

\* {/users: {get: c, tags: [x]}}
TEXT_usersGetTags ==
    << "{", "/", "u", "s", "e", "r", "s", ":", " ", "{", "g", "e", "t", ":",
       " ", "c", ",", " ", "t", "a", "g", "s", ":", " ", "[", "x", "]", "}",
       "}" >>

\* {/users: {tags: [y]}}
TEXT_usersTags ==
    << "{", "/", "u", "s", "e", "r", "s", ":", " ", "{", "t", "a", "g", "s",
       ":", " ", "[", "y", "]", "}", "}" >>

\* {Zebra: {type: a}, apple: {type: b}, Banana: {type: c}}
TEXT_threeNames ==
    << "{", "Z", "e", "b", "r", "a", ":", " ", "{", "t", "y", "p", "e", ":",
       " ", "a", "}", ",", " ", "a", "p", "p", "l", "e", ":", " ", "{", "t",
       "y", "p", "e", ":", " ", "b", "}", ",", " ", "B", "a", "n", "a", "n",
       "a", ":", " ", "{", "t", "y", "p", "e", ":", " ", "c", "}", "}" >>

\* {"10": {type: a}, "9": {type: b}}
TEXT_numericNames ==
    << "{", "\"", "1", "0", "\"", ":", " ", "{", "t", "y", "p", "e", ":",
       " ", "a", "}", ",", " ", "\"", "9", "\"", ":", " ", "{", "t", "y",
       "p", "e", ":", " ", "b", "}", "}" >>

\* /users:
TEXT_usersNull ==
    << "/", "u", "s", "e", "r", "s", ":" >>

\* { unterminated
TEXT_unterminated ==
    << "{", " ", "u", "n", "t", "e", "r", "m", "i", "n", "a", "t", "e", "d" >>

\* hello
TEXT_hello ==
    << "h", "e", "l", "l", "o" >>

\* (two spaces)
TEXT_blank ==
    << " ", " " >>

\* {"User": {"type": "a"}, "User": {"type": "b"}}
TEXT_duplicateKey ==
    << "{", "\"", "U", "s", "e", "r", "\"", ":", " ", "{", "\"", "t", "y",
       "p", "e", "\"", ":", " ", "\"", "a", "\"", "}", ",", " ", "\"", "U",
       "s", "e", "r", "\"", ":", " ", "{", "\"", "t", "y", "p", "e", "\"",
       ":", " ", "\"", "b", "\"", "}", "}" >>

\* {/Users: {get: d}, "/users ": {put: e}}
TEXT_mixedCase ==
    << "{", "/", "U", "s", "e", "r", "s", ":", " ", "{", "g", "e", "t", ":",
       " ", "d", "}", ",", " ", "\"", "/", "u", "s", "e", "r", "s", " ", "\"",
       ":", " ", "{", "p", "u", "t", ":", " ", "e", "}", "}" >>

\* The property names and the scalars that occur in the payloads.

K_get == << "g", "e", "t" >>

K_put == << "p", "u", "t" >>

K_Users == << "/", "U", "s", "e", "r", "s" >>

K_post == << "p", "o", "s", "t" >>

K_tags == << "t", "a", "g", "s" >>

K_type == << "t", "y", "p", "e" >>

K_a == << "a" >>

K_b == << "b" >>

K_c == << "c" >>

K_x == << "x" >>

K_y == << "y" >>

K_users == << "/", "u", "s", "e", "r", "s" >>

K_users_sp == << "/", "u", "s", "e", "r", "s", " " >>

K_Zebra == << "Z", "e", "b", "r", "a" >>

K_apple == << "a", "p", "p", "l", "e" >>

K_Banana == << "B", "a", "n", "a", "n", "a" >>

K_10 == << "1", "0" >>

K_9 == << "9" >>

K_User == << "U", "s", "e", "r" >>

K_hello == << "h", "e", "l", "l", "o" >>

\* The result of a parser: the value, or the exception it threw.
Parsed(val) == [ok |-> TRUE, val |-> val]
ParseError  == [ok |-> FALSE, val |-> Undefined]
\* The result of a reader as the result of the parser
ParsedIf(r) == IF r.ok THEN Parsed(r.val) ELSE ParseError

\* yaml.safeLoad(text) of js-yaml 3.x.  The payloads of the model are
\* tabulated with the value readDocument gives them; any other text is read.
\* A flow mapping with a repeated key is an error in YAML ("duplicated
\* mapping key"); a plain scalar is a string; a key without a value maps to
\* null.
yamlSafeLoad(text) ==
    CASE text = TEXT_usersGet ->
            Parsed(Obj(<< P(K_users, Obj(<< P(K_get, Str(K_a)) >>)) >>))
      [] text = TEXT_usersPost ->
            Parsed(Obj(<< P(K_users_sp, Obj(<< P(K_post, Str(K_b)) >>)) >>))
      [] text = TEXT_usersGetTags ->
            Parsed(Obj(<< P(K_users, Obj(<< P(K_get, Str(K_c)),
                                           P(K_tags, Arr(<< Str(K_x) >>)) >>)) >>))
      [] text = TEXT_usersTags ->
            Parsed(Obj(<< P(K_users, Obj(<< P(K_tags, Arr(<< Str(K_y) >>)) >>)) >>))
      [] text = TEXT_threeNames ->
            Parsed(Obj(<< P(K_Zebra, Obj(<< P(K_type, Str(K_a)) >>)),
                          P(K_apple, Obj(<< P(K_type, Str(K_b)) >>)),
                          P(K_Banana, Obj(<< P(K_type, Str(K_c)) >>)) >>))
      [] text = TEXT_numericNames ->
            Parsed(SetAll(EmptyObject,
                          << P(K_10, Obj(<< P(K_type, Str(K_a)) >>)),
                             P(K_9, Obj(<< P(K_type, Str(K_b)) >>)) >>))
      [] text = TEXT_usersNull ->
            Parsed(Obj(<< P(K_users, Null) >>))
      [] text = TEXT_hello ->
            Parsed(Str(K_hello))
      [] text \in { TEXT_unterminated, TEXT_duplicateKey } ->
            ParseError
      [] OTHER -> ParsedIf(readDocument(text))

\* JSON.parse(text).  The payloads of the model are tabulated (only those
\* written in JSON parse, and a repeated key keeps its last value); any
\* other text is read.
jsonParse(text) ==
    CASE text = TEXT_usersPost ->
            Parsed(Obj(<< P(K_users_sp, Obj(<< P(K_post, Str(K_b)) >>)) >>))
      [] text = TEXT_duplicateKey ->
            Parsed(Obj(<< P(K_User, Obj(<< P(K_type, Str(K_b)) >>)) >>))
      [] text = TEXT_unterminated ->
            ParseError
      [] OTHER -> ParsedIf(readFlowDocument(text, TRUE))

\* Mutant: `return yaml.safeLoad(serializedData) || false`: a decoded value
\* that is falsy is taken for a failure.
yamlOrJson_FalsyIsFailure(serializedData) ==
    LET text == toStringSafe(serializedData)
    IN  IF trim(text) = << >> THEN Undefined
        ELSE IF yamlSafeLoad(text).ok /\ Truthy(yamlSafeLoad(text).val)
        THEN yamlSafeLoad(text).val
        ELSE IF jsonParse(text).ok /\ Truthy(jsonParse(text).val)
        THEN jsonParse(text).val
        ELSE False

\* yamlOrJson(serializedData)
yamlOrJson(serializedData) ==
    LET text == toStringSafe(serializedData)
    IN  IF trim(text) = << >> THEN Undefined
        ELSE IF yamlSafeLoad(text).ok THEN yamlSafeLoad(text).val
        ELSE IF jsonParse(text).ok THEN jsonParse(text).val
        ELSE False

(***************************************************************************)
(* parse                                                                   *)
(***************************************************************************)

\* A source text is modelled as the sequence of its segments: a piece of
\* code, or a comment; a comment that JSDOC_REGEX matches carries the
\* annotation doctrine.parse() makes of it.
\*   annotation: [description, tags], tag: [title, description]
CodeSegment     == [seg |-> "code"]
JSDocSegment(a) == [seg |-> "jsdoc", parsed |-> a]

\* A comment written with the description and the tags of a, of which the
\* n-th tag is one the grammar of doctrine cannot parse (a tag with no
\* title, `@param` with no name, a type with an unclosed brace).
BrokenJSDocSegment(a, n) == [seg |-> "jsdoc", parsed |-> a, broken |-> n]

IsBroken(R) == "broken" \in DOMAIN R

\* doctrine.parse(R, { unwrap: true }): without `strict` the parser records
\* the error and does not throw; without `recoverable` it stops at the tag
\* it cannot parse and returns the description and the tags before it.
doctrineParse(R) ==
    IF IsBroken(R)
    THEN [ description |-> R.parsed.description,
           tags        |-> SubSeq(R.parsed.tags, 1, R.broken - 1) ]
    ELSE R.parsed

\* The matches of JSDOC_REGEX in the text, in order.
matchJSDoc(code) == SelectSeq(code, LAMBDA R : R.seg = "jsdoc")

\* Mutant: the loop over RESULTS ends at the first comment the grammar
\* cannot parse.
RECURSIVE parseResults_StopsAtBroken(_)
parseResults_StopsAtBroken(RESULTS) ==
    IF Len(RESULTS) = 0 \/ IsBroken(Head(RESULTS)) THEN << >>
    ELSE << doctrineParse(Head(RESULTS)) >> \o parseResults_StopsAtBroken(Tail(RESULTS))

\* for (const R of RESULTS) COMMENTS.push(doctrine.parse(R, ...))
parseResults(RESULTS) == [ i \in 1..Len(RESULTS) |-> doctrineParse(RESULTS[i]) ]

\* parseJSDoc(code): the annotations of the matches of JSDOC_REGEX, in order
parseJSDoc(code) == parseResults(matchJSDoc(code))

\* Mutant: the title is compared as written, without toLowerCase().
RECURSIVE scanTags_CaseSensitive(_, _, _)
scanTags_CaseSensitive(TAGS, i, acc) ==
    IF i > Len(TAGS) THEN acc
    ELSE LET T        == TAGS[i]
             TAG_NAME == trim(toStringSafe(T.title))
         IN  IF ~startsWith(TAG_NAME, S_swagger)
             THEN scanTags_CaseSensitive(TAGS, i + 1, acc)
             ELSE LET type == trim(substr(toLowerCase(TAG_NAME), 7))
                  IN  scanTags_CaseSensitive(TAGS, i + 1,
                               [ type    |-> IF type = << >> THEN Undefined ELSE Str(type),
                                 typeTag |-> T,
                                 found   |-> TRUE ])

\* Mutant: the first declaration tag is kept, a later one does not replace it.
RECURSIVE scanTags_FirstWins(_, _, _)
scanTags_FirstWins(TAGS, i, acc) ==
    IF i > Len(TAGS) THEN acc
    ELSE LET T        == TAGS[i]
             TAG_NAME == normalizeString(T.title)
         IN  IF ~startsWith(TAG_NAME, S_swagger) \/ acc.found
             THEN scanTags_FirstWins(TAGS, i + 1, acc)
             ELSE LET type == trim(substr(TAG_NAME, 7))
                  IN  scanTags_FirstWins(TAGS, i + 1,
                               [ type    |-> IF type = << >> THEN Undefined ELSE Str(type),
                                 typeTag |-> T,
                                 found   |-> TRUE ])

\* The loop over TAGS: the type and the type tag after the tags from i on.
RECURSIVE scanTags(_, _, _)
scanTags(TAGS, i, acc) ==
    IF i > Len(TAGS) THEN acc
    ELSE LET T        == TAGS[i]
             TAG_NAME == normalizeString(T.title)
         IN  IF ~startsWith(TAG_NAME, S_swagger)
             THEN scanTags(TAGS, i + 1, acc)
             ELSE LET type == trim(substr(TAG_NAME, 7))
                  IN  scanTags(TAGS, i + 1,
                               [ type    |-> IF type = << >> THEN Undefined ELSE Str(type),
                                 typeTag |-> T,
                                 found   |-> TRUE ])

NoTypeTag == [type |-> Undefined, typeTag |-> [title |-> Undefined, description |-> Undefined],
              found |-> FALSE]

\* A value whose conversion to a string throws, as an object does whose
\* toString() throws.  doctrine yields strings and null for a description
\* and a title; the value stands for whatever makes a statement of the try
\* block throw.
Unprintable == [t |-> "unprintable", v |-> << >>]

\* The statements of the try block throw for the annotation A: at
\* toStringSafe(A.description), at normalizeString(T.title) or, for the two
\* decoded types, at the toStringSafe() that yamlOrJson calls before its
\* own try.
Throws(A) ==
    IF A.description = Unprintable THEN TRUE
    ELSE IF \E i \in 1..Len(A.tags) : A.tags[i].title = Unprintable THEN TRUE
    ELSE /\ scanTags(A.tags, 1, NoTypeTag).found
         /\ scanTags(A.tags, 1, NoTypeTag).type \in { Str(S_definition), Str(S_path) }
         /\ scanTags(A.tags, 1, NoTypeTag).typeTag.description = Unprintable

\* Mutant: the `if (!typeTag) continue` is missing.
parseAnnotation_NoReject(A) ==
    LET description == trim(toStringSafe(A.description))
        scanned     == scanTags(A.tags, 1, NoTypeTag)
    IN  << [ description |-> IF description = << >> THEN Undefined ELSE Str(description),
             details     |-> IF scanned.type \in {Str(S_definition), Str(S_path)}
                             THEN yamlOrJson(scanned.typeTag.description)
                             ELSE Undefined,
             jsDoc       |-> A,
             type        |-> scanned.type ] >>

\* Mutant: the body of the type tag is decoded whatever the type is.
parseAnnotation_DecodesAll(A) ==
    LET description == trim(toStringSafe(A.description))
        scanned     == scanTags(A.tags, 1, NoTypeTag)
    IN  IF ~scanned.found THEN << >>
        ELSE << [ description |-> IF description = << >> THEN Undefined ELSE Str(description),
                  details     |-> yamlOrJson(scanned.typeTag.description),
                  jsDoc       |-> A,
                  type        |-> scanned.type ] >>

\* One pass of the loop over ANNOTATIONS: the blocks the annotation A adds.
parseAnnotation(A) ==
    LET description == trim(toStringSafe(A.description))
        scanned     == scanTags(A.tags, 1, NoTypeTag)
    IN  IF Throws(A) THEN << >>
        ELSE IF ~scanned.found THEN << >>
        ELSE << [ description |-> IF description = << >> THEN Undefined ELSE Str(description),
                  details     |-> IF scanned.type \in {Str(S_definition), Str(S_path)}
                                  THEN yamlOrJson(scanned.typeTag.description)
                                  ELSE Undefined,
                  jsDoc       |-> A,
                  type        |-> scanned.type ] >>

RECURSIVE parseAnnotations(_)
parseAnnotations(ANNOTATIONS) ==
    IF Len(ANNOTATIONS) = 0 THEN << >>
    ELSE parseAnnotation(Head(ANNOTATIONS)) \o parseAnnotations(Tail(ANNOTATIONS))

\* parseSwaggerDocBlocks(code)
parseSwaggerDocBlocks(code) == parseAnnotations(parseJSDoc(code))

\* parseSwaggerV2DocBlocks(code): the deprecated name of the same function
parseSwaggerV2DocBlocks(code) == parseSwaggerDocBlocks(code)

S_debug == << "d", "e", "b", "u", "g" >>

\* The text console.error() is called with in the catch of parse.ts.
ERROR_MESSAGE == "swagger-jsdoc-express.parseSwaggerV2DocBlocks(ERROR)"

\* What a call leaves behind: the blocks returned and the lines written
\* with console.error().
Outcome(DOCS, errors) == [DOCS |-> DOCS, errors |-> errors]

\* Mutant: with opts.debug the caught error is reported and thrown again,
\* and the call returns no block.
RECURSIVE parseAnnotationsOpts_Rethrows(_, _, _)
parseAnnotationsOpts_Rethrows(ANNOTATIONS, opts, acc) ==
    IF Len(ANNOTATIONS) = 0 THEN acc
    ELSE IF Throws(Head(ANNOTATIONS)) /\ Truthy(Get(opts, S_debug))
    THEN Outcome(<< >>, Append(acc.errors, ERROR_MESSAGE))
    ELSE parseAnnotationsOpts_Rethrows(Tail(ANNOTATIONS), opts,
             Outcome(acc.DOCS \o parseAnnotation(Head(ANNOTATIONS)), acc.errors))

\* Mutant: one try around the whole loop: a throw ends the loop, and the
\* blocks pushed so far are returned.
RECURSIVE parseAnnotationsOpts_Abort(_, _, _)
parseAnnotationsOpts_Abort(ANNOTATIONS, opts, acc) ==
    IF Len(ANNOTATIONS) = 0 THEN acc
    ELSE IF Throws(Head(ANNOTATIONS))
    THEN Outcome(acc.DOCS, IF Truthy(Get(opts, S_debug))
                           THEN Append(acc.errors, ERROR_MESSAGE)
                           ELSE acc.errors)
    ELSE parseAnnotationsOpts_Abort(Tail(ANNOTATIONS), opts,
             Outcome(acc.DOCS \o parseAnnotation(Head(ANNOTATIONS)), acc.errors))

\* The loop of parseSwaggerV2DocBlocks(code, opts) of parse.ts: the body of
\* the try is the one of parseSwaggerDocBlocks, and the catch reports the
\* error with console.error() if opts.debug is set.
RECURSIVE parseAnnotationsOpts(_, _, _)
parseAnnotationsOpts(ANNOTATIONS, opts, acc) ==
    IF Len(ANNOTATIONS) = 0 THEN acc
    ELSE parseAnnotationsOpts(Tail(ANNOTATIONS), opts,
             Outcome(acc.DOCS \o parseAnnotation(Head(ANNOTATIONS)),
                     IF Throws(Head(ANNOTATIONS)) /\ Truthy(Get(opts, S_debug))
                     THEN Append(acc.errors, ERROR_MESSAGE)
                     ELSE acc.errors))

\* parseSwaggerV2DocBlocks(code, opts) of parse.ts
parseSwaggerV2DocBlocksOpts(code, opts) ==
    parseAnnotationsOpts(parseJSDoc(code),
                         IF isNil(opts) THEN EmptyObject ELSE opts,
                         Outcome(<< >>, << >>))

(***************************************************************************)
(* generate                                                                *)
(***************************************************************************)

\* Mutant: the keys are taken in the order of Object.keys, without sort().
documentTags_Unsorted(tags) ==
    LET names == OwnKeys(tags)
    IN  Arr([ i \in 1..Len(names) |->
                Obj(<< P(S_name, Str(names[i])),
                       P(S_description, Str(toStringSafe(Get(tags, names[i])))) >>) ])

\* The tags of the document: one entry per key of opts.tags, sorted.
documentTags(tags) ==
    LET names == SortKeys(OwnKeys(tags))
    IN  Arr([ i \in 1..Len(names) |->
                Obj(<< P(S_name, Str(names[i])),
                       P(S_description, Str(toStringSafe(Get(tags, names[i])))) >>) ])

\* Mutant: the path key is used as written, without trim().
RECURSIVE mergePathDetails_NoTrim(_, _, _)
mergePathDetails_NoTrim(paths, es, i) ==
    IF i > Len(es) \/ paths = Thrown THEN paths
    ELSE LET PATH_PROP == es[i].k
             seeded    == IF isNil(Get(paths, PATH_PROP))
                          THEN Set(paths, PATH_PROP, EmptyObject)
                          ELSE paths
             merged    == deepMerge(Get(seeded, PATH_PROP), es[i].val)
         IN  IF merged = Thrown THEN Thrown
             ELSE mergePathDetails_NoTrim(Set(seeded, PATH_PROP, sortObjectByKey(merged)),
                                          es, i + 1)

\* Mutant: the sub-document is assigned, not merged into the entry.
RECURSIVE mergePathDetails_Assign(_, _, _)
mergePathDetails_Assign(paths, es, i) ==
    IF i > Len(es) THEN paths
    ELSE mergePathDetails_Assign(
             Set(paths, trim(es[i].k),
                 sortObjectByKey(cloneUnlessOtherwiseSpecified(es[i].val))),
             es, i + 1)

\* Mutant: the arguments of deepMerge are swapped, so the entry wins.
RECURSIVE mergePathDetails_EarlierWins(_, _, _)
mergePathDetails_EarlierWins(paths, es, i) ==
    IF i > Len(es) \/ paths = Thrown THEN paths
    ELSE LET PATH_PROP == trim(es[i].k)
             seeded    == IF isNil(Get(paths, PATH_PROP))
                          THEN Set(paths, PATH_PROP, EmptyObject)
                          ELSE paths
             merged    == deepMerge(es[i].val, Get(seeded, PATH_PROP))
         IN  IF merged = Thrown THEN Thrown
             ELSE mergePathDetails_EarlierWins(
                      Set(seeded, PATH_PROP, sortObjectByKey(merged)), es, i + 1)

\* for (const DETAILS_PROP in PB.details) { ... }, from entry i on
RECURSIVE mergePathDetails(_, _, _)
mergePathDetails(paths, es, i) ==
    IF i > Len(es) \/ paths = Thrown THEN paths
    ELSE LET PATH_PROP == trim(es[i].k)
             seeded    == IF isNil(Get(paths, PATH_PROP))
                          THEN Set(paths, PATH_PROP, EmptyObject)
                          ELSE paths
             merged    == deepMerge(Get(seeded, PATH_PROP), es[i].val)
         IN  IF merged = Thrown THEN Thrown
             ELSE mergePathDetails(Set(seeded, PATH_PROP, sortObjectByKey(merged)),
                                   es, i + 1)

\* Mutant: `break` in the place of `continue`: the loop ends at the first
\* block without details.
RECURSIVE mergePathBlocks_Break(_, _, _)
mergePathBlocks_Break(paths, PATH_BLOCKS, i) ==
    IF i > Len(PATH_BLOCKS) \/ paths = Thrown THEN paths
    ELSE LET PB == PATH_BLOCKS[i]
         IN  IF ~Truthy(PB.details)
             THEN paths
             ELSE mergePathBlocks_Break(mergePathDetails(paths, OwnEntries(PB.details), 1),
                                        PATH_BLOCKS, i + 1)

\* for (const PB of PATH_BLOCKS) { ... }, from block i on
RECURSIVE mergePathBlocks(_, _, _)
mergePathBlocks(paths, PATH_BLOCKS, i) ==
    IF i > Len(PATH_BLOCKS) \/ paths = Thrown THEN paths
    ELSE LET PB == PATH_BLOCKS[i]
         IN  IF ~Truthy(PB.details)
             THEN mergePathBlocks(paths, PATH_BLOCKS, i + 1)
             ELSE mergePathBlocks(mergePathDetails(paths, OwnEntries(PB.details), 1),
                                  PATH_BLOCKS, i + 1)

\* Mutant: a definition that exists is merged with the new value.
RECURSIVE setDefinitions_Merge(_, _)
setDefinitions_Merge(definitions, es) ==
    IF Len(es) = 0 THEN definitions
    ELSE LET name == trim(es[1].k)
             val  == IF hasOwnProperty(definitions, name)
                        /\ isMergeableObject(es[1].val)
                     THEN deepMerge(Get(definitions, name), es[1].val)
                     ELSE es[1].val
         IN  setDefinitions_Merge(Set(definitions, name, val), Tail(es))

\* Mutant: the name is stored as normalizeString(DEF_NAME), so that names
\* that differ in letter case are one entry.
setDefinitions_IgnoreCase(definitions, es) ==
    SetAll(definitions, [ i \in 1..Len(es) |-> P(normalizeString(Str(es[i].k)), es[i].val) ])

\* for (const DEF_NAME in DB.details) { ... }
setDefinitions(definitions, es) ==
    SetAll(definitions, [ i \in 1..Len(es) |-> P(trim(es[i].k), es[i].val) ])

\* for (const DB of DEFINITION_BLOCKS) { ... }, from block i on
RECURSIVE mergeDefinitionBlocks(_, _, _)
mergeDefinitionBlocks(definitions, DEFINITION_BLOCKS, i) ==
    IF i > Len(DEFINITION_BLOCKS) THEN definitions
    ELSE LET DB == DEFINITION_BLOCKS[i]
         IN  IF ~Truthy(DB.details)
             THEN mergeDefinitionBlocks(definitions, DEFINITION_BLOCKS, i + 1)
             ELSE mergeDefinitionBlocks(setDefinitions(definitions, OwnEntries(DB.details)),
                                        DEFINITION_BLOCKS, i + 1)

\* Mutant: only the blocks with details count as Path blocks.
pathBlocks_Usable(blocks) ==
    SelectSeq(blocks, LAMBDA b : normalizeString(b.type) = S_path /\ Truthy(b.details))

\* const PATH_BLOCKS = blocks.filter(...)
pathBlocks(blocks) == SelectSeq(blocks, LAMBDA b : normalizeString(b.type) = S_path)

\* Mutant: the Definition blocks are collected in one pass with the Path
\* blocks, from the first Path block on.
definitionBlocks_AfterPath(blocks) ==
    SelectSeq([ i \in 1..Len(blocks) |->
                  IF \E j \in 1..i : normalizeString(blocks[j].type) = S_path
                  THEN blocks[i]
                  ELSE [blocks[i] EXCEPT !.type = Undefined] ],
              LAMBDA b : normalizeString(b.type) = S_definition)

\* const DEFINITION_BLOCKS = blocks.filter(...)
definitionBlocks(blocks) ==
    SelectSeq(blocks, LAMBDA b : normalizeString(b.type) = S_definition)

\* Mutant: a scheme that has occurred before is dropped.
schemesOf_Unique(opts) ==
    LET as         == asArray(Get(opts, S_schemes))
        normalized == [ i \in 1..Len(as) |-> normalizeString(as[i]) ]
        kept       == { i \in 1..Len(as) :
                          /\ normalized[i] # << >>
                          /\ \A j \in 1..(i - 1) : normalized[j] # normalized[i] }
    IN  [ n \in 1..Cardinality(kept) |->
            normalized[CHOOSE i \in kept : Cardinality({ j \in kept : j <= i }) = n] ]

\* const SCHEMES = asArray(opts.schemes).map(...).filter(...)
schemesOf(opts) ==
    LET as         == asArray(Get(opts, S_schemes))
        normalized == [ i \in 1..Len(as) |-> normalizeString(as[i]) ]
    IN  SelectSeq(normalized, LAMBDA sc : sc # << >>)

\* Mutant: `'host': isEmptyString(opts.host) ? undefined : opts.host`.
newDocument_HostVerbatim(opts, PATH_BLOCKS, DEFINITION_BLOCKS, SCHEMES) ==
    Obj(<<
        P(S_swagger, Str(S_2_0)),
        P(S_info, IF isNil(Get(opts, S_info)) THEN Undefined ELSE Get(opts, S_info)),
        P(S_host, IF isEmptyString(Get(opts, S_host)) THEN Undefined
                  ELSE Get(opts, S_host)),
        P(S_tags, IF isNil(Get(opts, S_tags)) THEN Undefined ELSE Arr(<< >>)),
        P(S_schemes, IF Len(SCHEMES) > 0
                     THEN Arr([ i \in 1..Len(SCHEMES) |-> Str(SCHEMES[i]) ])
                     ELSE Undefined),
        P(S_paths, IF Len(PATH_BLOCKS) > 0 THEN EmptyObject ELSE Undefined),
        P(S_definitions, IF Len(DEFINITION_BLOCKS) > 0 THEN EmptyObject ELSE Undefined),
        P(S_externalDocs, IF isNil(Get(opts, S_externalDocs)) THEN Undefined
                          ELSE Get(opts, S_externalDocs)),
        P(S_basePath, IF isEmptyString(Get(opts, S_basePath)) THEN Undefined
                      ELSE Get(opts, S_basePath)) >>)

\* Mutant: `'paths': {}`, whether there is a path block or not.
newDocument_PathsAlways(opts, PATH_BLOCKS, DEFINITION_BLOCKS, SCHEMES) ==
    Obj(<<
        P(S_swagger, Str(S_2_0)),
        P(S_info, IF isNil(Get(opts, S_info)) THEN Undefined ELSE Get(opts, S_info)),
        P(S_host, IF isEmptyString(Get(opts, S_host)) THEN Undefined
                  ELSE Str(trim(toStringSafe(Get(opts, S_host))))),
        P(S_tags, IF isNil(Get(opts, S_tags)) THEN Undefined ELSE Arr(<< >>)),
        P(S_schemes, IF Len(SCHEMES) > 0
                     THEN Arr([ i \in 1..Len(SCHEMES) |-> Str(SCHEMES[i]) ])
                     ELSE Undefined),
        P(S_paths, EmptyObject),
        P(S_definitions, IF Len(DEFINITION_BLOCKS) > 0 THEN EmptyObject ELSE Undefined),
        P(S_externalDocs, IF isNil(Get(opts, S_externalDocs)) THEN Undefined
                          ELSE Get(opts, S_externalDocs)),
        P(S_basePath, IF isEmptyString(Get(opts, S_basePath)) THEN Undefined
                      ELSE Get(opts, S_basePath)) >>)

\* const DOC = { ... }: every slot is set, the unused ones to undefined.
newDocument(opts, PATH_BLOCKS, DEFINITION_BLOCKS, SCHEMES) ==
    Obj(<<
        P(S_swagger, Str(S_2_0)),
        P(S_info, IF isNil(Get(opts, S_info)) THEN Undefined ELSE Get(opts, S_info)),
        P(S_host, IF isEmptyString(Get(opts, S_host)) THEN Undefined
                  ELSE Str(trim(toStringSafe(Get(opts, S_host))))),
        P(S_tags, IF isNil(Get(opts, S_tags)) THEN Undefined ELSE Arr(<< >>)),
        P(S_schemes, IF Len(SCHEMES) > 0
                     THEN Arr([ i \in 1..Len(SCHEMES) |-> Str(SCHEMES[i]) ])
                     ELSE Undefined),
        P(S_paths, IF Len(PATH_BLOCKS) > 0 THEN EmptyObject ELSE Undefined),
        P(S_definitions, IF Len(DEFINITION_BLOCKS) > 0 THEN EmptyObject ELSE Undefined),
        P(S_externalDocs, IF isNil(Get(opts, S_externalDocs)) THEN Undefined
                          ELSE Get(opts, S_externalDocs)),
        P(S_basePath, IF isEmptyString(Get(opts, S_basePath)) THEN Undefined
                      ELSE Get(opts, S_basePath)) >>)

\* // tags
withTags(DOC, opts) ==
    IF ~isNil(Get(opts, S_tags))
    THEN Set(DOC, S_tags, documentTags(Get(opts, S_tags)))
    ELSE DOC

\* // paths
withPaths(DOC, PATH_BLOCKS) ==
    IF Len(PATH_BLOCKS) > 0
    THEN LET merged == mergePathBlocks(Get(DOC, S_paths), PATH_BLOCKS, 1)
         IN  IF merged = Thrown THEN Thrown
             ELSE Set(DOC, S_paths, sortObjectByKey(merged))
    ELSE DOC

\* // definitions
withDefinitions(DOC, DEFINITION_BLOCKS) ==
    IF DOC = Thrown THEN Thrown
    ELSE IF Len(DEFINITION_BLOCKS) > 0
    THEN Set(DOC, S_definitions,
             sortObjectByKey(
                 mergeDefinitionBlocks(Get(DOC, S_definitions), DEFINITION_BLOCKS, 1)))
    ELSE DOC

\* DOC as it stands before the final JSON.parse(JSON.stringify(DOC)), or
\* Thrown when an exception has ended the call.
buildDocument(blocks, options) ==
    LET opts              == IF isNil(options) THEN EmptyObject ELSE options
        PATH_BLOCKS       == pathBlocks(blocks)
        DEFINITION_BLOCKS == definitionBlocks(blocks)
        SCHEMES           == schemesOf(opts)
        DOC               == newDocument(opts, PATH_BLOCKS, DEFINITION_BLOCKS, SCHEMES)
    IN  withDefinitions(withPaths(withTags(DOC, opts), PATH_BLOCKS), DEFINITION_BLOCKS)

\* generateSwaggerV2Document(blocks, opts): the document, or Thrown when the
\* call ends with an exception.
generateSwaggerV2Document(blocks, options) ==
    LET DOC == buildDocument(blocks, options)
    IN  IF DOC = Thrown THEN Thrown ELSE JsonClone(DOC)

(***************************************************************************)
(* The inputs of the model                                                 *)
(***************************************************************************)

T_swaggerPath ==
    << "s", "w", "a", "g", "g", "e", "r", "P", "a", "t", "h" >>
T_swaggerDefinition ==
    << "s", "w", "a", "g", "g", "e", "r", "D", "e", "f", "i", "n", "i", "t", "i", "o", "n" >>
T_SWAGGERPATH ==
    << "S", "W", "A", "G", "G", "E", "R", "P", "A", "T", "H" >>
T_swaggerResponse ==
    << "s", "w", "a", "g", "g", "e", "r", "R", "e", "s", "p", "o", "n", "s", "e" >>
T_param == << "p", "a", "r", "a", "m" >>
T_returns == << "r", "e", "t", "u", "r", "n", "s" >>
D_Lists == << "L", "i", "s", "t", "s", " ", "u", "s", "e", "r", "s" >>

Tag(title, description) == [title |-> Str(title), description |-> description]
Annotation(description, tags) == [description |-> Str(description), tags |-> tags]

\* The payload texts written under @swaggerPath and under @swaggerDefinition.
PathTexts ==
    { TEXT_usersGet, TEXT_usersPost, TEXT_usersGetTags, TEXT_usersTags,
      TEXT_threeNames, TEXT_usersNull, TEXT_unterminated, TEXT_hello,
      TEXT_mixedCase }

DefinitionTexts ==
    { TEXT_usersGet, TEXT_usersPost, TEXT_usersGetTags, TEXT_threeNames,
      TEXT_numericNames, TEXT_duplicateKey, TEXT_unterminated, TEXT_blank,
      TEXT_mixedCase }

\* The annotations doctrine.parse() yields for the comments of the model.
AnnotationPool ==
    { Annotation(<< >>, << Tag(T_swaggerPath, Str(t)) >>) : t \in PathTexts }
    \cup { Annotation(<< >>, << Tag(T_swaggerDefinition, Str(t)) >>) : t \in DefinitionTexts }
    \cup { \* a declaration tag with no body
           Annotation(D_Lists, << Tag(T_swaggerPath, Null) >>),
           \* no declaration tag
           Annotation(D_Lists, << >>),
           Annotation(D_Lists, << Tag(T_param, Str(TEXT_usersGet)),
                                  Tag(T_returns, Str(TEXT_hello)) >>),
           \* a declaration of no kind, and of a kind that is not recognized
           Annotation(<< >>, << Tag(S_swagger, Str(TEXT_usersGet)) >>),
           Annotation(<< >>, << Tag(T_swaggerResponse, Str(TEXT_usersGet)) >>),
           \* two declaration tags
           Annotation(<< >>, << Tag(T_swaggerDefinition, Str(TEXT_threeNames)),
                                Tag(T_param, Null),
                                Tag(T_SWAGGERPATH, Str(TEXT_usersPost)) >>) }

\* The source files: one comment between code, no comment at all, and two
\* comments in one file.
SourcePool ==
    { << CodeSegment, JSDocSegment(a), CodeSegment >> : a \in AnnotationPool }
    \cup { << CodeSegment >>,
           << JSDocSegment(Annotation(D_Lists, << >>)),
              JSDocSegment(Annotation(<< >>, << Tag(T_swaggerPath, Str(TEXT_usersTags)) >>)),
              CodeSegment,
              JSDocSegment(Annotation(<< >>,
                               << Tag(T_swaggerDefinition, Str(TEXT_usersGet)) >>)) >> }

V_title == << "t", "i", "t", "l", "e" >>
V_api   == << "A", "P", "I" >>
V_host  == << " ", "a", "p", "i", " " >>
V_v1    == << "/", "v", "1" >>
V_url   == << "u", "r", "l" >>
V_HTTPS == << " ", "H", "T", "T", "P", "S" >>

\* opts.document: none, every option set, and every option set to nothing.
DocumentOptionsPool ==
    { Undefined,
      Obj(<< P(S_info, Obj(<< P(V_title, Str(V_api)) >>)),
             P(S_host, Str(V_host)),
             P(S_basePath, Str(V_v1)),
             P(S_externalDocs, Obj(<< P(V_url, Str(V_v1)) >>)),
             P(S_schemes, Arr(<< Str(V_HTTPS), Str(<< " " >>) >>)),
             P(S_tags, Obj(<< P(K_Zebra, Str(K_a)), P(K_apple, Str(K_b)) >>)) >>),
      Obj(<< P(S_info, Null),
             P(S_host, Str(<< " " >>)),
             P(S_basePath, Str(<< >>)),
             P(S_schemes, Str(<< " " >>)),
             P(S_tags, EmptyObject) >>) }

\* The number of source files the file search finds, at most.
MaxFiles == 2

(***************************************************************************)
(* setupSwaggerUIFromSourceFiles                                           *)
(***************************************************************************)

VARIABLES
    SOURCE_FILES,   \* the content of the files read so far, in order
    SOURCE_BLOCKS,  \* the blocks parsed from them
    document,       \* opts.document, once the document is generated
    SWAGGER_DOC,    \* the generated document
    pc,             \* "scan", "serving", or "failed" (the setup has thrown);
                    \* in a call of yamlOrJson: "call", "yaml", "json", "return"
    serializedData, \* yamlOrJson: the argument of the call
    attempts,       \* yamlOrJson: the parsers called so far, in order
    returned,       \* yamlOrJson: the value returned
    calls,          \* yamlOrJson: the number of calls made
    requests,       \* the router: the number of requests answered
    res,            \* the router: the last response
    debug,          \* opts.debug of the setup
    console,        \* the lines written with console.error() by the setup
    lastIndex,      \* JSDOC_REGEX.lastIndex, the one state of the module
    previous        \* the setup made before this one, if any

setupVars == << SOURCE_FILES, SOURCE_BLOCKS, document, SWAGGER_DOC >>
decodeVars == << serializedData, attempts, returned, calls >>
serveVars == << requests, res >>
callVars == << debug, console, lastIndex, previous >>

vars == << setupVars, pc, decodeVars, serveVars, callVars >>

\* No setup has been made before this one.
NoSetup ==
    [ made          |-> FALSE,
      SOURCE_FILES  |-> << >>,
      SOURCE_BLOCKS |-> << >>,
      debug         |-> Undefined,
      document      |-> Undefined,
      SWAGGER_DOC   |-> Undefined,
      console       |-> << >> ]

\* Nothing is read, no call of yamlOrJson is made and no request answered.
Idle ==
    /\ SOURCE_FILES = << >>
    /\ SOURCE_BLOCKS = << >>
    /\ document = Undefined
    /\ SWAGGER_DOC = Undefined
    /\ serializedData = Undefined
    /\ attempts = << >>
    /\ returned = Undefined
    /\ calls = 0
    /\ requests = 0
    /\ res = Undefined
    /\ console = << >>
    /\ lastIndex = 0
    /\ previous = NoSetup

Init ==
    /\ Idle
    /\ debug = Undefined
    /\ pc = "scan"

\* The options parseSwaggerV2DocBlocks is called with: { debug: opts.debug }
DebugOption(d) == Obj(<< P(S_debug, d) >>)

\* SOURCE_BLOCKS.push.apply(SOURCE_BLOCKS, ...): the blocks of the call are
\* pushed; what the call has reported is on the console.
Pushed(call) ==
    /\ SOURCE_BLOCKS' = SOURCE_BLOCKS \o call.DOCS
    /\ console' = console \o call.errors

\* Mutant: the blocks of the file are put before the blocks read so far.
ReadSourceFile_Unshift(SOURCE) ==
    /\ pc = "scan"
    /\ Len(SOURCE_FILES) < MaxFiles
    /\ SOURCE_FILES' = Append(SOURCE_FILES, SOURCE)
    /\ SOURCE_BLOCKS' = parseSwaggerV2DocBlocks(SOURCE) \o SOURCE_BLOCKS
    /\ console' = console \o parseSwaggerV2DocBlocksOpts(SOURCE, DebugOption(debug)).errors
    /\ lastIndex' = 0
    /\ UNCHANGED << document, SWAGGER_DOC, pc, decodeVars, serveVars, debug, previous >>

\* Mutant: the comments are found with JSDOC_REGEX.exec(), which starts at
\* lastIndex and leaves lastIndex behind the last comment it has found.
ReadSourceFile_KeepsLastIndex(SOURCE) ==
    /\ pc = "scan"
    /\ Len(SOURCE_FILES) < MaxFiles
    /\ SOURCE_FILES' = Append(SOURCE_FILES, SOURCE)
    /\ Pushed(parseSwaggerV2DocBlocksOpts(SubSeq(SOURCE, lastIndex + 1, Len(SOURCE)),
                                          DebugOption(debug)))
    /\ lastIndex' = IF \E i \in (lastIndex + 1)..Len(SOURCE) : SOURCE[i].seg = "jsdoc"
                    THEN CHOOSE i \in (lastIndex + 1)..Len(SOURCE) :
                             /\ SOURCE[i].seg = "jsdoc"
                             /\ \A j \in (i + 1)..Len(SOURCE) : SOURCE[j].seg # "jsdoc"
                    ELSE 0
    /\ UNCHANGED << document, SWAGGER_DOC, pc, decodeVars, serveVars, debug, previous >>

\* One pass of SOURCE_FILES.forEach: read the next file and push its blocks.
\* code.match(JSDOC_REGEX) starts at 0 whatever lastIndex is, and leaves it
\* at 0.
ReadSourceFile(SOURCE) ==
    /\ pc = "scan"
    /\ Len(SOURCE_FILES) < MaxFiles
    /\ SOURCE_FILES' = Append(SOURCE_FILES, SOURCE)
    /\ Pushed(parseSwaggerV2DocBlocksOpts(SOURCE, DebugOption(debug)))
    /\ lastIndex' = 0
    /\ UNCHANGED << document, SWAGGER_DOC, pc, decodeVars, serveVars, debug, previous >>

\* const SWAGGER_DOC = generateSwaggerV2Document(SOURCE_BLOCKS, opts.document)
GenerateDocument(options) ==
    /\ pc = "scan"
    /\ document' = options
    /\ SWAGGER_DOC' = generateSwaggerV2Document(SOURCE_BLOCKS, options)
    /\ pc' = IF SWAGGER_DOC' = Thrown THEN "failed" ELSE "serving"
    /\ UNCHANGED << SOURCE_FILES, SOURCE_BLOCKS, decodeVars, serveVars, callVars >>

Next ==
    \/ \E SOURCE \in SourcePool : ReadSourceFile(SOURCE)
    \/ \E options \in DocumentOptionsPool : GenerateDocument(options)

Spec == Init /\ [][Next]_vars

(***************************************************************************)
(* The setup over the generation options                                   *)
(***************************************************************************)

V_apiHost == << "a", "p", "i" >>
V_v1_sp == << " ", "/", "v", "1", " " >>
V_http == << "h", "t", "t", "p" >>
V_https == << "h", "t", "t", "p", "s" >>
V_HTTP == << "H", "T", "T", "P" >>
K_A == << "A" >>
K_a_sp == << "a", " " >>

InfoPool == { Undefined, Null, Obj(<< P(V_title, Str(V_host)) >>) }

ExternalDocsPool ==
    { Undefined, Null, Obj(<< P(V_url, Str(V_v1)), P(S_description, Str(<< >>)) >>) }

HostPool == { Undefined, Null, Str(<< >>), Str(<< " " >>), Str(V_apiHost), Str(V_host) }

BasePathPool == { Undefined, Str(<< >>), Str(<< " " >>), Str(V_v1), Str(V_v1_sp) }

TagsPool ==
    { Undefined, Null, EmptyObject,
      Obj(<< P(K_Zebra, Str(K_a)), P(K_apple, Str(K_b)), P(K_users_sp, Num(42)),
             P(K_Banana, Null) >>),
      SetAll(EmptyObject, << P(K_a_sp, Str(K_x)), P(K_10, Str(K_y)), P(K_A, Str(K_a)),
                             P(K_9, Str(K_b)) >>),
      Obj(<< P(K_A, Str(K_a)), P(K_a_sp, Str(K_x)) >>) }

SchemesPool ==
    { Undefined, Str(V_HTTPS), Str(<< " " >>), Arr(<< >>), Arr(<< Str(<< >>), Null >>),
      Arr(<< Str(V_HTTPS), Str(<< " " >>), Str(V_http), Null, Str(V_https),
             Str(V_HTTP) >>) }

\* opts.document: the options, varied two by two.
WideOptionsPool ==
    { Undefined }
    \cup { Obj(<< P(S_info, i), P(S_externalDocs, e) >>) :
             i \in InfoPool, e \in ExternalDocsPool }
    \cup { Obj(<< P(S_host, h), P(S_basePath, b) >>) : h \in HostPool, b \in BasePathPool }
    \cup { Obj(<< P(S_tags, t), P(S_schemes, sc) >>) : t \in TagsPool, sc \in SchemesPool }

\* The source files: an empty file, code without a comment, a path block,
\* and a definition and a path.
NarrowSourcePool ==
    { << >>,
      << CodeSegment >>,
      << CodeSegment,
         JSDocSegment(Annotation(<< >>, << Tag(T_swaggerPath, Str(TEXT_usersGet)) >>)) >>,
      << JSDocSegment(Annotation(<< >>,
                          << Tag(T_swaggerDefinition, Str(TEXT_threeNames)) >>)),
         JSDocSegment(Annotation(<< >>, << Tag(T_swaggerPath, Str(TEXT_usersPost)) >>)) >> }

NextOptions ==
    \/ \E SOURCE \in NarrowSourcePool : ReadSourceFile(SOURCE)
    \/ \E options \in WideOptionsPool : GenerateDocument(options)

OptionsSpec == Init /\ [][NextOptions]_vars

(***************************************************************************)
(* The router: the downloads of the document                               *)
(***************************************************************************)

\* The number of requests the router answers, at most.
MaxRequests == 2

\* res.status(200).header(...).header(...).send(Buffer.from(body, 'utf8'))
Response(contentType, contentDisposition, body) ==
    [ status             |-> 200,
      contentType        |-> contentType,
      contentDisposition |-> contentDisposition,
      body               |-> body ]

\* Mutant: the handler generates the document again, from the blocks alone.
GetJson_Regenerates ==
    /\ pc = "serving"
    /\ requests < MaxRequests
    /\ requests' = requests + 1
    /\ SWAGGER_DOC' = generateSwaggerV2Document(SOURCE_BLOCKS, Undefined)
    /\ res' = Response("application/json; charset=utf-8", "attachment; filename=api.json",
                       jsonStringify(SWAGGER_DOC', 2, 0))
    /\ UNCHANGED << SOURCE_FILES, SOURCE_BLOCKS, document, pc, decodeVars, callVars >>

\* ROUTER.get(`/json`, ...)
GetJson ==
    /\ pc = "serving"
    /\ requests < MaxRequests
    /\ requests' = requests + 1
    /\ res' = Response("application/json; charset=utf-8", "attachment; filename=api.json",
                       jsonStringify(SWAGGER_DOC, 2, 0))
    /\ UNCHANGED << setupVars, pc, decodeVars, callVars >>

\* ROUTER.get(`/yaml`, ...)
GetYaml ==
    /\ pc = "serving"
    /\ requests < MaxRequests
    /\ requests' = requests + 1
    /\ res' = Response("application/x-yaml; charset=utf-8", "attachment; filename=api.yaml",
                       yamlSafeDump(SWAGGER_DOC))
    /\ UNCHANGED << setupVars, pc, decodeVars, callVars >>

NextServe ==
    \/ \E SOURCE \in NarrowSourcePool : ReadSourceFile(SOURCE)
    \/ \E options \in DocumentOptionsPool : GenerateDocument(options)
    \/ GetJson
    \/ GetYaml

ServeSpec == Init /\ [][NextServe]_vars

(***************************************************************************)
(* Setups made one after the other in one process                          *)
(***************************************************************************)

\* Annotations for which the body of the try throws: at the decoding of the
\* body of the type tag, and at the description.
ThrowsAtBody == [ description |-> Str(<< >>),
                  tags        |-> << Tag(T_swaggerPath, Unprintable) >> ]
ThrowsAtDescription ==
    [ description |-> Unprintable,
      tags        |-> << Tag(T_swaggerDefinition, Str(TEXT_usersGet)) >> ]

\* A comment whose second tag the grammar cannot parse.
BrokenComment ==
    BrokenJSDocSegment(Annotation(D_Lists, << Tag(T_swaggerDefinition, Str(TEXT_usersPost)),
                                              Tag(T_param, Null),
                                              Tag(T_swaggerPath, Str(TEXT_usersGetTags)) >>), 2)

\* Source files with a failing annotation and a broken comment between
\* comments that are in order.
FaultySourcePool ==
    { << JSDocSegment(Annotation(<< >>, << Tag(T_swaggerPath, Str(TEXT_usersGet)) >>)),
         JSDocSegment(ThrowsAtBody),
         CodeSegment,
         JSDocSegment(Annotation(<< >>, << Tag(T_swaggerDefinition, Str(TEXT_threeNames)) >>)) >>,
      << BrokenComment,
         JSDocSegment(ThrowsAtDescription),
         JSDocSegment(Annotation(<< >>, << Tag(T_swaggerPath, Str(TEXT_usersTags)) >>)) >> }

\* opts.debug: not set, on and off.
DebugPool == { Undefined, Bool(TRUE), Bool(FALSE) }

\* opts.document: none, and one with an object and a tag map in it.
SetupOptionsPool ==
    { Undefined,
      Obj(<< P(S_info, Obj(<< P(V_title, Str(V_api)) >>)),
             P(S_tags, Obj(<< P(K_users, Str(K_a)) >>)) >>) }

InitSetups ==
    /\ Idle
    /\ debug \in DebugPool
    /\ pc = "scan"

\* setupSwaggerUIFromSourceFiles is called again, in the same process: the
\* call starts with its own SOURCE_FILES and SOURCE_BLOCKS, and the module
\* is as the call before has left it.
SetupAgain(d) ==
    /\ pc = "serving"
    /\ previous' = [ made          |-> TRUE,
                     SOURCE_FILES  |-> SOURCE_FILES,
                     SOURCE_BLOCKS |-> SOURCE_BLOCKS,
                     debug         |-> debug,
                     document      |-> document,
                     SWAGGER_DOC   |-> SWAGGER_DOC,
                     console       |-> console ]
    /\ SOURCE_FILES' = << >>
    /\ SOURCE_BLOCKS' = << >>
    /\ document' = Undefined
    /\ SWAGGER_DOC' = Undefined
    /\ console' = << >>
    /\ debug' = d
    /\ pc' = "scan"
    /\ UNCHANGED << lastIndex, decodeVars, serveVars >>

NextSetups ==
    \/ \E SOURCE \in FaultySourcePool : ReadSourceFile(SOURCE)
    \/ \E options \in SetupOptionsPool : GenerateDocument(options)
    \/ \E d \in DebugPool : SetupAgain(d)

SetupsSpec == InitSetups /\ [][NextSetups]_vars

(***************************************************************************)
(* yamlOrJson, one step for each parser it calls                           *)
(***************************************************************************)

K_object == << "o", "b", "j", "e", "c", "t" >>
K_id == << "i", "d" >>

\* The values written as payloads, in YAML or in JSON.
ValuePool ==
    { Null, Bool(TRUE), Bool(FALSE), Num(0), Num(42),
      Str(K_hello), Str(<< >>), Str(L_true), Str(K_10), Str(D_Lists), Str(<< "\t" >>),
      Arr(<< >>), EmptyObject,
      Arr(<< Str(K_a), Num(1), Null, Arr(<< Str(K_x), Str(K_y) >>),
             Obj(<< P(K_a, EmptyObject), P(K_b, Arr(<< >>)) >>) >>),
      Obj(<< P(K_users, Obj(<< P(K_get, Obj(<< P(K_tags, Arr(<< Str(K_x), Str(K_y) >>)),
                                               P(S_description, Str(D_Lists)) >>)),
                               P(K_post, Null) >>)),
             P(K_users_sp, Obj(<< P(K_y, Bool(FALSE)) >>)) >>),
      Obj(<< P(K_9, Num(9)), P(K_10, Str(S_2_0)),
             P(K_User, Obj(<< P(K_type, Str(K_object)),
                              P(K_id, Arr(<< Obj(<< P(K_type, Str(K_a)),
                                                    P(K_b, Num(2)) >>) >>)) >>)),
             P(<< >>, Str(<< "i", "t", "'", "s", ":" >>)) >>) }

\* [a, b
TEXT_unclosedSequence == << "[", "a", ",", " ", "b" >>
\* "a
TEXT_unclosedQuote == << "\"", "a" >>
\* a: b: c
TEXT_nestedColon == << "a", ":", " ", "b", ":", " ", "c" >>
\* {a: 1} x
TEXT_trailing == << "{", "a", ":", " ", "1", "}", " ", "x" >>

\* The arguments of the calls: the payloads of the model, texts that are
\* neither YAML nor JSON, the serializations of the values, and arguments
\* that are not strings.
SerializedPool ==
    { Str(t) : t \in PathTexts \cup DefinitionTexts }
    \cup { Str(TEXT_unclosedSequence), Str(TEXT_unclosedQuote), Str(TEXT_nestedColon),
           Str(TEXT_trailing) }
    \cup { Str(yamlSafeDump(V)) : V \in ValuePool }
    \cup { Str(jsonStringify(V, 0, 0)) : V \in ValuePool }
    \cup { Str(jsonStringify(V, 2, 0)) : V \in ValuePool }
    \cup { Undefined, Null, Str(<< >>), Num(7), Bool(FALSE) }

\* The number of calls of yamlOrJson, at most.
MaxCalls == 2

InitDecode ==
    /\ Idle
    /\ debug = Undefined
    /\ pc = "call"

\* serializedData = toStringSafe(serializedData); if ('' === ...trim()) return undefined
CallYamlOrJson(data) ==
    /\ pc = "call"
    /\ calls < MaxCalls
    /\ calls' = calls + 1
    /\ serializedData' = data
    /\ attempts' = << >>
    /\ returned' = Undefined
    /\ pc' = IF trim(toStringSafe(data)) = << >> THEN "return" ELSE "yaml"
    /\ UNCHANGED << setupVars, serveVars, callVars >>

\* try { return yaml.safeLoad(serializedData); } catch { ... }
SafeLoad ==
    /\ pc = "yaml"
    /\ attempts' = Append(attempts, "safeLoad")
    /\ LET loaded == yamlSafeLoad(toStringSafe(serializedData))
       IN  IF loaded.ok
           THEN returned' = loaded.val /\ pc' = "return"
           ELSE returned' = returned /\ pc' = "json"
    /\ UNCHANGED << setupVars, serveVars, callVars, serializedData, calls >>

\* Mutant: without the outer try, the error of JSON.parse leaves the call.
JsonParse_Uncaught ==
    /\ pc = "json"
    /\ attempts' = Append(attempts, "parse")
    /\ LET parsed == jsonParse(toStringSafe(serializedData))
       IN  IF parsed.ok
           THEN returned' = parsed.val /\ pc' = "return"
           ELSE returned' = Thrown /\ pc' = "failed"
    /\ UNCHANGED << setupVars, serveVars, callVars, serializedData, calls >>

\* catch { return JSON.parse(serializedData); } ... catch { return false; }
JsonParse ==
    /\ pc = "json"
    /\ attempts' = Append(attempts, "parse")
    /\ LET parsed == jsonParse(toStringSafe(serializedData))
       IN  returned' = IF parsed.ok THEN parsed.val ELSE False
    /\ pc' = "return"
    /\ UNCHANGED << setupVars, serveVars, callVars, serializedData, calls >>

\* The call is over.
Return ==
    /\ pc = "return"
    /\ pc' = "call"
    /\ serializedData' = Undefined
    /\ attempts' = << >>
    /\ returned' = Undefined
    /\ UNCHANGED << setupVars, serveVars, callVars, calls >>

NextDecode ==
    \/ \E data \in SerializedPool : CallYamlOrJson(data)
    \/ SafeLoad
    \/ JsonParse
    \/ Return

DecodeSpec == InitDecode /\ [][NextDecode]_vars

(***************************************************************************)
(* Properties                                                              *)
(***************************************************************************)

\* What the usable blocks declare, flattened in merge order: one record per
\* key of each payload, with the trimmed key, the value and the block.
RECURSIVE contributionsFrom(_, _)
contributionsFrom(BLOCKS, i) ==
    IF i > Len(BLOCKS) THEN << >>
    ELSE LET es == IF Truthy(BLOCKS[i].details)
                   THEN OwnEntries(BLOCKS[i].details) ELSE << >>
         IN  [ j \in 1..Len(es) |-> [name |-> trim(es[j].k), val |-> es[j].val, block |-> i] ]
                \o contributionsFrom(BLOCKS, i + 1)

PathContributions == contributionsFrom(pathBlocks(SOURCE_BLOCKS), 1)
DefinitionContributions == contributionsFrom(definitionBlocks(SOURCE_BLOCKS), 1)

Names(cs) == { cs[i].name : i \in 1..Len(cs) }
Declaring(cs, name) == SelectSeq(cs, LAMBDA c : c.name = name)
\* The sub-documents for a path that hold the nested key
Holding(cs, name, key) ==
    SelectSeq(cs, LAMBDA c : c.name = name /\ hasOwnProperty(c.val, key))
AllObjects(cs) == \A i \in 1..Len(cs) : cs[i].val.t = "object"
KeySet(x) == { OwnKeys(x)[i] : i \in 1..Len(OwnKeys(x)) }
NestedKeys(cs) == UNION { KeySet(cs[i].val) : i \in 1..Len(cs) }
PairwiseDisjoint(cs) ==
    \A i, j \in 1..Len(cs) : i # j => KeySet(cs[i].val) \cap KeySet(cs[j].val) = {}

DocPaths == Get(SWAGGER_DOC, S_paths)
DocDefinitions == Get(SWAGGER_DOC, S_definitions)

\* C1: when the sub-documents that Path blocks carry for one path key (equal
\* after trimming) have disjoint keys, `paths` has exactly one entry for that
\* key, and the entry holds every key of every sub-document with its value
\* and no other key.
C1_DisjointSubDocumentsCompose ==
    pc = "serving" =>
        LET all   == PathContributions
            paths == DocPaths
        IN  \A name \in Names(all) :
                LET cs    == Declaring(all, name)
                    entry == Get(paths, name)
                IN  (AllObjects(cs) /\ PairwiseDisjoint(cs)) =>
                        /\ Cardinality({ n \in 1..Len(OwnKeys(paths)) :
                                            trim(OwnKeys(paths)[n]) = name }) = 1
                        /\ KeySet(entry) = NestedKeys(cs)
                        /\ \A i \in 1..Len(cs) : \A key \in KeySet(cs[i].val) :
                               Get(entry, key) = Get(cs[i].val, key)

\* Two Path blocks have declared disjoint sub-documents for one path.
C1_Witness ==
    /\ pc = "serving"
    /\ LET all == PathContributions
       IN  \E name \in Names(all) :
               LET cs == Declaring(all, name)
               IN  /\ AllObjects(cs) /\ PairwiseDisjoint(cs)
                   /\ \E i, j \in 1..Len(cs) :
                          /\ cs[i].block < cs[j].block
                          /\ KeySet(cs[i].val) # {} /\ KeySet(cs[j].val) # {}

\* The arrays the sub-documents hs hold under key, one after the other.
RECURSIVE concatArrays(_, _)
concatArrays(hs, key) ==
    IF Len(hs) = 0 THEN << >>
    ELSE Get(Head(hs).val, key).v \o concatArrays(Tail(hs), key)

\* The sub-documents cs of one path are objects, and hs, those that hold
\* the nested key, are several and all hold an array there.
ArraysUnder(cs, hs, key) ==
    /\ AllObjects(cs)
    /\ Len(hs) >= 2
    /\ \A i \in 1..Len(hs) : Get(hs[i].val, key).t = "array"

\* C2 (as claimed): when the same nested key of the same path holds an array
\* in an earlier and in a later Path block, the document holds exactly the
\* later block's array.
C2_LaterArrayReplaces ==
    pc = "serving" =>
        LET all   == PathContributions
            paths == DocPaths
        IN  \A name \in Names(all) :
                LET cs == Declaring(all, name)
                IN  \A key \in NestedKeys(cs) :
                        LET hs == Holding(cs, name, key)
                        IN  ArraysUnder(cs, hs, key) =>
                                Get(Get(paths, name), key) = Get(hs[Len(hs)].val, key)

\* C2 (amended): when the same nested key of the same path holds an array in
\* several Path blocks, the document holds the concatenation of these
\* arrays in the order of the blocks: the earlier elements are kept and the
\* later ones follow them.
C2_ArraysAreConcatenated ==
    pc = "serving" =>
        LET all   == PathContributions
            paths == DocPaths
        IN  \A name \in Names(all) :
                LET cs == Declaring(all, name)
                IN  \A key \in NestedKeys(cs) :
                        LET hs == Holding(cs, name, key)
                        IN  ArraysUnder(cs, hs, key) =>
                                Get(Get(paths, name), key) = Arr(concatArrays(hs, key))

\* Two Path blocks hold different arrays under the same nested key.
C2_Witness ==
    /\ pc = "serving"
    /\ LET all == PathContributions
       IN  \E name \in Names(all) :
               LET cs == Declaring(all, name)
               IN  \E key \in NestedKeys(cs) :
                       LET hs == Holding(cs, name, key)
                       IN  /\ ArraysUnder(cs, hs, key)
                           /\ hs[1].block < hs[2].block
                           /\ Get(hs[1].val, key) # Get(hs[2].val, key)

\* The sub-documents cs of one path are objects, and hs, those that hold
\* the nested key, all hold a scalar there.
ScalarsUnder(cs, hs, key) ==
    /\ AllObjects(cs)
    /\ Len(hs) >= 1
    /\ \A i \in 1..Len(hs) : ~isMergeableObject(Get(hs[i].val, key))

\* C3: Path blocks are merged in the order supplied: when the Path blocks
\* give scalar values for the same nested key of the same path, the document
\* holds the value of the block that comes last in that order.
C3_LaterScalarWins ==
    pc = "serving" =>
        LET all   == PathContributions
            paths == DocPaths
        IN  \A name \in Names(all) :
                LET cs == Declaring(all, name)
                IN  \A key \in NestedKeys(cs) :
                        LET hs == Holding(cs, name, key)
                        IN  ScalarsUnder(cs, hs, key) =>
                                Get(Get(paths, name), key) = Get(hs[Len(hs)].val, key)

\* Two Path blocks give different scalars for the same nested key.
C3_Witness ==
    /\ pc = "serving"
    /\ LET all == PathContributions
       IN  \E name \in Names(all) :
               LET cs == Declaring(all, name)
               IN  \E key \in NestedKeys(cs) :
                       LET hs == Holding(cs, name, key)
                       IN  /\ ScalarsUnder(cs, hs, key)
                           /\ Len(hs) >= 2
                           /\ hs[1].block < hs[Len(hs)].block
                           /\ Get(hs[1].val, key) # Get(hs[Len(hs)].val, key)

\* C4: when several Definition blocks declare the same definition name,
\* definitions[name] is exactly the value of the last of them in supplied
\* order; nothing of an earlier value is merged in.
C4_LastDefinitionWins ==
    pc = "serving" =>
        LET all         == DefinitionContributions
            definitions == DocDefinitions
        IN  \A name \in Names(all) :
                LET cs == Declaring(all, name)
                IN  Get(definitions, name) = cs[Len(cs)].val

\* Two Definition blocks declare the same name with values that have
\* different fields.
C4_Witness ==
    /\ pc = "serving"
    /\ LET all == DefinitionContributions
       IN  \E name \in Names(all) :
               LET cs == Declaring(all, name)
               IN  /\ Len(cs) >= 2
                   /\ cs[1].block < cs[Len(cs)].block
                   /\ KeySet(cs[1].val) \ KeySet(cs[Len(cs)].val) # {}

\* The keys enumerate in non-decreasing order of their normalized form.
EnumeratesSorted(x) ==
    LET keys == OwnKeys(x)
    IN  \A i, j \in 1..Len(keys) :
            i < j => ~StrLess(normalizeString(Str(keys[j])), normalizeString(Str(keys[i])))

\* C5: in every document the keys of `paths` and the keys of `definitions`
\* enumerate in non-decreasing order of their lowercased, trimmed form.
C5_KeysEnumerateSorted ==
    pc = "serving" => EnumeratesSorted(DocPaths) /\ EnumeratesSorted(DocDefinitions)

IsKind(b, kind) == b.type = Str(kind)
HasKey(x, key) == hasOwnProperty(x, key)

\* C6: `paths` is present if and only if some block is of kind path, and
\* `definitions` if and only if some block is of kind definition; when no
\* block of the kind has a usable payload the mapping is present and empty.
C6_PresentIffBlockOfKind ==
    pc = "serving" =>
        LET somePath == \E i \in 1..Len(SOURCE_BLOCKS) : IsKind(SOURCE_BLOCKS[i], S_path)
            someDef  == \E i \in 1..Len(SOURCE_BLOCKS) : IsKind(SOURCE_BLOCKS[i], S_definition)
        IN  /\ HasKey(SWAGGER_DOC, S_paths) <=> somePath
            /\ HasKey(SWAGGER_DOC, S_definitions) <=> someDef
            /\ (somePath /\ Len(PathContributions) = 0) => DocPaths = EmptyObject
            /\ (someDef /\ Len(DefinitionContributions) = 0) => DocDefinitions = EmptyObject

\* Every Path block of the run is without a usable payload, and so the
\* document has an empty `paths`.
C6_Witness ==
    /\ pc = "serving"
    /\ \E i \in 1..Len(SOURCE_BLOCKS) : IsKind(SOURCE_BLOCKS[i], S_path)
    /\ Len(PathContributions) = 0
    /\ ~ \E i \in 1..Len(SOURCE_BLOCKS) : IsKind(SOURCE_BLOCKS[i], S_definition)
    /\ DocPaths = EmptyObject

\* A property, at any depth, that is present with the value undefined.
RECURSIVE HasUndefinedField(_)
HasUndefinedField(x) ==
    CASE x.t = "object" ->
            \E i \in 1..Len(x.v) : x.v[i].val.t = "undefined" \/ HasUndefinedField(x.v[i].val)
      [] x.t = "array" ->
            \E i \in 1..Len(x.v) : x.v[i].t = "undefined" \/ HasUndefinedField(x.v[i])
      [] OTHER -> FALSE

\* C7: no field of the returned document, at any depth, is present with an
\* undefined value: the slots the construction set to undefined are missing.
C7_NoUndefinedField ==
    pc = "serving" =>
        /\ ~HasUndefinedField(SWAGGER_DOC)
        /\ LET DOC == buildDocument(SOURCE_BLOCKS, document)
           IN  \A i \in 1..Len(DOC.v) :
                   DOC.v[i].val = Undefined => ~HasKey(SWAGGER_DOC, DOC.v[i].k)

\* The construction has set optional slots to undefined, next to slots that
\* are set.
C7_Witness ==
    /\ pc = "serving"
    /\ HasUndefinedField(buildDocument(SOURCE_BLOCKS, document))
    /\ HasKey(SWAGGER_DOC, S_paths)
    /\ ~HasKey(SWAGGER_DOC, S_definitions)

RemoveAt(seq, i) == SubSeq(seq, 1, i - 1) \o SubSeq(seq, i + 1, Len(seq))

\* A Path or Definition block with 'no value' or 'decode failed' as payload
Unusable(b) ==
    /\ IsKind(b, S_path) \/ IsKind(b, S_definition)
    /\ b.details \in {Undefined, False}

\* C8: a Path or Definition block whose payload is undefined or false adds
\* no entry, and the entries of `paths` and `definitions` are those of the
\* document generated from the sequence without that block.
C8_UnusableBlockIsSkipped ==
    pc = "serving" =>
        \A i \in 1..Len(SOURCE_BLOCKS) :
            Unusable(SOURCE_BLOCKS[i]) =>
                LET without == generateSwaggerV2Document(RemoveAt(SOURCE_BLOCKS, i), document)
                IN  /\ OwnEntries(DocPaths) = OwnEntries(Get(without, S_paths))
                    /\ OwnEntries(DocDefinitions) = OwnEntries(Get(without, S_definitions))

\* An unusable block stands before a usable block of its kind.
C8_Witness ==
    /\ pc = "serving"
    /\ \E i, j \in 1..Len(SOURCE_BLOCKS) :
           /\ i < j
           /\ Unusable(SOURCE_BLOCKS[i])
           /\ SOURCE_BLOCKS[j].type = SOURCE_BLOCKS[i].type
           /\ Truthy(SOURCE_BLOCKS[j].details)
    /\ Len(OwnEntries(DocPaths)) + Len(OwnEntries(DocDefinitions)) > 0

\* C9: whatever the shape of the decoded payloads, generateSwaggerV2Document
\* returns a document and does not throw.
C9_GenerateNeverThrows == pc # "failed"

\* A tag title that declares a block: it starts with `swagger` once
\* lowercased and trimmed.
HasDeclarationTag(A) ==
    \E i \in 1..Len(A.tags) : startsWith(normalizeString(A.tags[i].title), S_swagger)

RECURSIVE annotationsOf(_)
annotationsOf(FILES) ==
    IF Len(FILES) = 0 THEN << >>
    ELSE parseJSDoc(Head(FILES)) \o annotationsOf(Tail(FILES))

\* C10: an annotation none of whose tag titles starts with `swagger` emits
\* no block: SOURCE_BLOCKS holds one block for each annotation with such a
\* tag, in order, and none for any other annotation.
C10_NoDeclarationNoBlock ==
    LET declaring == SelectSeq(annotationsOf(SOURCE_FILES), HasDeclarationTag)
    IN  /\ Len(SOURCE_BLOCKS) = Len(declaring)
        /\ \A i \in 1..Len(SOURCE_BLOCKS) : SOURCE_BLOCKS[i].jsDoc = declaring[i]

\* A file with an annotation that has a description and tags, none of them
\* a declaration, has been read next to one with a declaration tag.
C10_Witness ==
    /\ \E i \in 1..Len(annotationsOf(SOURCE_FILES)) :
           LET A == annotationsOf(SOURCE_FILES)[i]
           IN  ~HasDeclarationTag(A) /\ Len(A.tags) > 0 /\ A.description # Str(<< >>)
    /\ Len(SOURCE_BLOCKS) > 0

\* The declaration tags of an annotation, in tag order; the kind a tag
\* declares is what follows `swagger` in its lowercased, trimmed title.
IsDeclarationTag(T) == startsWith(normalizeString(T.title), S_swagger)
DeclarationTags(A) == SelectSeq(A.tags, IsDeclarationTag)
KindOf(T) == trim(substr(trim(toLowerCase(toStringSafe(T.title))), Len(S_swagger)))
TitleIs(T, title) == toLowerCase(trim(toStringSafe(T.title))) = toLowerCase(title)

\* C11: a block's kind is the remainder, trimmed, of the lowercased and
\* trimmed title of its declaration tag after the prefix `swagger`: the
\* title swaggerDefinition in any letter case gives the kind `definition`,
\* swaggerPath the kind `path`, and the payload of such a block is decoded
\* from the body of that tag.
C11_KindIsTitleRemainder ==
    \A i \in 1..Len(SOURCE_BLOCKS) :
        LET b  == SOURCE_BLOCKS[i]
            Ts == DeclarationTags(b.jsDoc)
        IN  /\ Len(Ts) > 0
            /\ LET T == Ts[Len(Ts)]
               IN  /\ KindOf(T) # << >> => b.type = Str(KindOf(T))
                   /\ TitleIs(T, T_swaggerDefinition) =>
                          /\ b.type = Str(S_definition)
                          /\ b.details = yamlOrJson(T.description)
                   /\ TitleIs(T, T_swaggerPath) =>
                          /\ b.type = Str(S_path)
                          /\ b.details = yamlOrJson(T.description)

\* A tag titled SWAGGERPATH has made a Path block with a decoded payload,
\* and a tag titled swaggerResponse a block of the kind `response`.
C11_Witness ==
    /\ \E i \in 1..Len(SOURCE_BLOCKS) :
           LET b  == SOURCE_BLOCKS[i]
               Ts == DeclarationTags(b.jsDoc)
           IN  /\ Ts[Len(Ts)].title = Str(T_SWAGGERPATH)
               /\ b.type = Str(S_path)
               /\ b.details.t = "object"
    /\ \E i \in 1..Len(SOURCE_BLOCKS) :
           /\ SOURCE_BLOCKS[i].type = Str(<< "r", "e", "s", "p", "o", "n", "s", "e" >>)
           /\ SOURCE_BLOCKS[i].details = Undefined

\* The annotation A with only the last of its declaration tags left.
LastDeclarationOnly(A) ==
    LET Ts == DeclarationTags(A)
    IN  [A EXCEPT !.tags = << Ts[Len(Ts)] >>]

Occurrences(seq, x) == Cardinality({ i \in 1..Len(seq) : seq[i] = x })

\* C12: an annotation with several declaration tags emits exactly one
\* block, and its kind and payload are those of the last declaration tag:
\* the block is the one the annotation emits with that tag alone.
C12_LastDeclarationTagWins ==
    LET ANNOTATIONS == annotationsOf(SOURCE_FILES)
    IN  \A i \in 1..Len(ANNOTATIONS) :
            LET A  == ANNOTATIONS[i]
                Ts == DeclarationTags(A)
            IN  Len(Ts) > 1 =>
                    LET alone == parseSwaggerDocBlocks(<< JSDocSegment(LastDeclarationOnly(A)) >>)
                        mine  == SelectSeq(SOURCE_BLOCKS, LAMBDA b : b.jsDoc = A)
                    IN  /\ Len(mine) = Occurrences(ANNOTATIONS, A)
                        /\ Len(alone) = 1
                        /\ \A j \in 1..Len(mine) :
                               /\ mine[j].type = alone[1].type
                               /\ mine[j].details = alone[1].details
                               /\ mine[j].details = yamlOrJson(Ts[Len(Ts)].description)

\* An annotation with two declaration tags of different kinds and payloads
\* has emitted its block.
C12_Witness ==
    \E i \in 1..Len(SOURCE_BLOCKS) :
        LET b  == SOURCE_BLOCKS[i]
            Ts == DeclarationTags(b.jsDoc)
        IN  /\ Len(Ts) = 2
            /\ KindOf(Ts[1]) # KindOf(Ts[2])
            /\ yamlOrJson(Ts[1].description) # yamlOrJson(Ts[2].description)
            /\ b.type = Str(KindOf(Ts[2]))

\* C13: yamlOrJson does not throw.  JSON.parse is called only after
\* yaml.safeLoad has been called and has thrown, and a text that neither
\* parser reads is answered with the value false.
C13_YamlOrJsonNeverThrows ==
    LET text == toStringSafe(serializedData)
    IN  /\ pc \in { "call", "yaml", "json", "return" }
        /\ returned # Thrown
        /\ pc = "json" => attempts = << "safeLoad" >> /\ ~yamlSafeLoad(text).ok
        /\ pc = "return" =>
              /\ attempts \in { << >>, << "safeLoad" >>, << "safeLoad", "parse" >> }
              /\ attempts = << >> <=> trim(text) = << >>
              /\ attempts = << "safeLoad" >> =>
                    yamlSafeLoad(text).ok /\ returned = yamlSafeLoad(text).val
              /\ attempts = << "safeLoad", "parse" >> =>
                    /\ ~yamlSafeLoad(text).ok
                    /\ jsonParse(text).ok => returned = jsonParse(text).val
                    /\ ~jsonParse(text).ok => returned = False
              /\ returned = yamlOrJson(serializedData)

\* `{ unterminated` has been given to both parsers and false is returned;
\* the call before it has returned the value of JSON.parse.
C13_Witness ==
    /\ pc = "return"
    /\ serializedData = Str(TEXT_unterminated)
    /\ attempts = << "safeLoad", "parse" >>
    /\ returned = False
    /\ calls = 2

\* The texts a value is written as: YAML, and JSON on one line or indented.
SerializationsOf(V) ==
    { Str(yamlSafeDump(V)), Str(jsonStringify(V, 0, 0)), Str(jsonStringify(V, 2, 0)) }

\* C14: for every value V of the JSON data model, yamlOrJson returns V for
\* the YAML text of V and for the JSON text of V.
C14_DecoderRoundTrip ==
    /\ \A V \in ValuePool : Dumpable(V)
    /\ pc = "return" =>
          \A V \in ValuePool :
              serializedData \in SerializationsOf(V) =>
                  /\ returned = V
                  /\ yamlOrJson(serializedData) = V

\* A mapping of several keys with nested collections, written in YAML, has
\* been read back.
C14_Witness ==
    /\ pc = "return"
    /\ \E V \in ValuePool :
           /\ V.t = "object"
           /\ Len(V.v) > 2
           /\ \E i \in 1..Len(V.v) : V.v[i].val.t = "object"
           /\ serializedData = Str(yamlSafeDump(V))
           /\ serializedData # Str(jsonStringify(V, 2, 0))
           /\ returned = V

\* The options generateSwaggerV2Document works with: `{}` when none is given.
OptsOf(options) == IF isNil(options) THEN EmptyObject ELSE options

\* The entry of the tag list written for a key of the tag map.
TagEntry(tags, name) ==
    Obj(<< P(S_name, Str(name)), P(S_description, Str(toStringSafe(Get(tags, name)))) >>)

\* C15: `tags` is absent exactly when the options carry no tag map; for a
\* map it is an array of exactly one {name, description} entry for each key
\* of the map, in the order of the lowercased, trimmed names, and an empty
\* map gives an empty array.
C15_TagsFollowTheTagMap ==
    pc = "serving" =>
        LET tags == Get(OptsOf(document), S_tags)
            list == Get(SWAGGER_DOC, S_tags)
            keys == OwnKeys(tags)
        IN  /\ HasKey(SWAGGER_DOC, S_tags) <=> ~isNil(tags)
            /\ ~isNil(tags) =>
                  /\ list.t = "array"
                  /\ Len(list.v) = Len(keys)
                  /\ \A i \in 1..Len(keys) :
                         Occurrences(list.v, TagEntry(tags, keys[i])) = 1
                  /\ \A i, j \in 1..Len(list.v) :
                         i < j => ~StrLess(trim(toLowerCase(Get(list.v[j], S_name).v)),
                                           trim(toLowerCase(Get(list.v[i], S_name).v)))
            /\ tags = EmptyObject => list = Arr(<< >>)

\* A map of four keys that are not in sorted order has given four entries.
C15_Witness ==
    /\ pc = "serving"
    /\ Get(OptsOf(document), S_tags).t = "object"
    /\ OwnKeys(Get(OptsOf(document), S_tags)) = << K_Zebra, K_apple, K_users_sp, K_Banana >>
    /\ Len(Get(SWAGGER_DOC, S_tags).v) = 4
    /\ Get(Get(SWAGGER_DOC, S_tags).v[1], S_name) = Str(K_users_sp)
    /\ Get(Get(SWAGGER_DOC, S_tags).v[4], S_name) = Str(K_Zebra)

MetadataFields == { S_info, S_externalDocs, S_host, S_basePath }

\* C16, as stated: each of `info`, `externalDocs`, `host` and `basePath` is
\* absent or exactly the value the caller supplied, and is neither null nor
\* an empty string.
C16_MetadataVerbatim ==
    pc = "serving" =>
        \A f \in MetadataFields :
            HasKey(SWAGGER_DOC, f) =>
                /\ Get(SWAGGER_DOC, f) = Get(OptsOf(document), f)
                /\ Get(SWAGGER_DOC, f) \notin { Null, Str(<< >>) }

\* C16: `info` and `externalDocs` are absent when nothing is supplied and
\* otherwise the supplied value; `basePath` is absent when the supplied one
\* is empty after trimming and otherwise the supplied value, untrimmed;
\* `host` is absent when the supplied one is empty after trimming and
\* otherwise the supplied host without its leading and trailing white
\* space.  None of the four is null or an empty string.
C16_HostTrimmedOthersVerbatim ==
    pc = "serving" =>
        LET opts == OptsOf(document)
            supplied(f) == Get(opts, f)
            blank(f) == isNil(supplied(f)) \/ trim(supplied(f).v) = << >>
        IN  /\ \A f \in { S_info, S_externalDocs } :
                   IF isNil(supplied(f)) THEN ~HasKey(SWAGGER_DOC, f)
                   ELSE HasKey(SWAGGER_DOC, f) /\ Get(SWAGGER_DOC, f) = supplied(f)
            /\ IF blank(S_basePath) THEN ~HasKey(SWAGGER_DOC, S_basePath)
               ELSE /\ HasKey(SWAGGER_DOC, S_basePath)
                    /\ Get(SWAGGER_DOC, S_basePath) = supplied(S_basePath)
            /\ IF blank(S_host) THEN ~HasKey(SWAGGER_DOC, S_host)
               ELSE /\ HasKey(SWAGGER_DOC, S_host)
                    /\ Get(SWAGGER_DOC, S_host) = Str(trim(supplied(S_host).v))
            /\ \A f \in MetadataFields :
                   HasKey(SWAGGER_DOC, f) => Get(SWAGGER_DOC, f) \notin { Null, Str(<< >>) }

\* A host and a base path written with spaces around them: the host is
\* stored without them, the base path with them.
C16_Witness ==
    /\ pc = "serving"
    /\ Get(OptsOf(document), S_host) = Str(V_host)
    /\ Get(OptsOf(document), S_basePath) = Str(V_v1_sp)
    /\ Get(SWAGGER_DOC, S_host) = Str(V_apiHost)
    /\ Get(SWAGGER_DOC, S_basePath) = Str(V_v1_sp)

\* The schemes of the options, one or a list, normalized one by one, the
\* empty ones left out.
NormalizedSchemes(schemes) ==
    LET given == IF schemes.t = "array" THEN schemes.v ELSE << schemes >>
        each  == [ i \in 1..Len(given) |->
                     IF isNil(given[i]) THEN << >> ELSE trim(toLowerCase(given[i].v)) ]
    IN  SelectSeq(each, LAMBDA sc : sc # << >>)

\* C17: `schemes` of the document is the list of the lowercased, trimmed
\* schemes of the options without the empty ones, in the order given and
\* with its duplicates; the key is absent when that list is empty.
C17_SchemesNormalizedInOrder ==
    pc = "serving" =>
        LET expected == NormalizedSchemes(Get(OptsOf(document), S_schemes))
        IN  IF expected = << >> THEN ~HasKey(SWAGGER_DOC, S_schemes)
            ELSE /\ HasKey(SWAGGER_DOC, S_schemes)
                 /\ Get(SWAGGER_DOC, S_schemes) =
                        Arr([ i \in 1..Len(expected) |-> Str(expected[i]) ])

\* A list of six with an empty scheme, a null and two duplicates has given
\* four schemes, the duplicates among them.
C17_Witness ==
    /\ pc = "serving"
    /\ Get(OptsOf(document), S_schemes).t = "array"
    /\ Len(Get(OptsOf(document), S_schemes).v) = 6
    /\ Get(SWAGGER_DOC, S_schemes) =
           Arr(<< Str(V_https), Str(V_http), Str(V_https), Str(V_http) >>)

RECURSIVE blocksOf(_)
blocksOf(FILES) ==
    IF Len(FILES) = 0 THEN << >>
    ELSE parseSwaggerDocBlocks(Head(FILES)) \o blocksOf(Tail(FILES))

\* Two mappings with the same keys and the same value for each key.
SameEntries(x, y) ==
    /\ x.t = "object"
    /\ y.t = "object"
    /\ KeySet(x) = KeySet(y)
    /\ \A k \in KeySet(x) : Get(x, k) = Get(y, k)

\* C18: SOURCE_BLOCKS is the blocks of the files in the order of the files
\* and, for each file, one block for each declaring comment in the order of
\* the text.  The document of two files holds every definition declared in
\* the first file only under its name with its decoded value, and every
\* path declared once, in the second file only, with the entries of its
\* decoded mapping.
C18_BlocksKeepFileAndTextOrder ==
    /\ SOURCE_BLOCKS = blocksOf(SOURCE_FILES)
    /\ \A k \in 1..Len(SOURCE_FILES) :
           LET blocks    == parseSwaggerDocBlocks(SOURCE_FILES[k])
               declaring == SelectSeq(parseJSDoc(SOURCE_FILES[k]), HasDeclarationTag)
           IN  /\ Len(blocks) = Len(declaring)
               /\ \A i \in 1..Len(blocks) : blocks[i].jsDoc = declaring[i]
    /\ (pc = "serving" /\ Len(SOURCE_FILES) = 2) =>
           LET A      == parseSwaggerDocBlocks(SOURCE_FILES[1])
               B      == parseSwaggerDocBlocks(SOURCE_FILES[2])
               defsA  == contributionsFrom(definitionBlocks(A), 1)
               defsB  == contributionsFrom(definitionBlocks(B), 1)
               pathsA == contributionsFrom(pathBlocks(A), 1)
               pathsB == contributionsFrom(pathBlocks(B), 1)
           IN  /\ \A i \in 1..Len(defsA) :
                      (/\ defsA[i].name \notin Names(defsB)
                       /\ \A j \in (i + 1)..Len(defsA) : defsA[j].name # defsA[i].name)
                      => /\ HasKey(DocDefinitions, defsA[i].name)
                         /\ Get(DocDefinitions, defsA[i].name) = defsA[i].val
               /\ \A i \in 1..Len(pathsB) :
                      (/\ pathsB[i].val.t = "object"
                       /\ pathsB[i].name \notin Names(pathsA)
                       /\ Len(Declaring(pathsB, pathsB[i].name)) = 1)
                      => /\ HasKey(DocPaths, pathsB[i].name)
                         /\ SameEntries(Get(DocPaths, pathsB[i].name), pathsB[i].val)

\* The first file declares three definitions and the second a path, and
\* the document holds them.
C18_Witness ==
    /\ pc = "serving"
    /\ Len(SOURCE_FILES) = 2
    /\ Len(definitionBlocks(parseSwaggerDocBlocks(SOURCE_FILES[1]))) = 1
    /\ Len(pathBlocks(parseSwaggerDocBlocks(SOURCE_FILES[1]))) = 0
    /\ Len(pathBlocks(parseSwaggerDocBlocks(SOURCE_FILES[2]))) = 1
    /\ Len(definitionBlocks(parseSwaggerDocBlocks(SOURCE_FILES[2]))) = 0
    /\ SOURCE_BLOCKS[1].type = Str(S_definition)
    /\ SOURCE_BLOCKS[2].type = Str(S_path)
    /\ Len(OwnKeys(DocDefinitions)) = 3
    /\ HasKey(DocPaths, K_users)
    /\ HasKey(Get(DocPaths, K_users), K_get)

\* A source text without a `/** ... */` comment.
HasNoComment(code) == \A i \in 1..Len(code) : code[i].seg # "jsdoc"

\* C19: for a source text without a `/** ... */` comment parseJSDoc returns
\* the empty sequence and parseSwaggerDocBlocks no block; the document
\* generated from such texts is returned and has no `paths` key and no
\* `definitions` key.
C19_NoCommentNoBlockNoMapping ==
    /\ \A k \in 1..Len(SOURCE_FILES) :
           HasNoComment(SOURCE_FILES[k]) =>
               /\ parseJSDoc(SOURCE_FILES[k]) = << >>
               /\ parseSwaggerDocBlocks(SOURCE_FILES[k]) = << >>
    /\ (\A k \in 1..Len(SOURCE_FILES) : HasNoComment(SOURCE_FILES[k])) =>
           /\ SOURCE_BLOCKS = << >>
           /\ pc \in { "scan", "serving" }
           /\ pc = "serving" =>
                  /\ ~HasKey(SWAGGER_DOC, S_paths)
                  /\ ~HasKey(SWAGGER_DOC, S_definitions)

\* An empty file and a file of code without a comment have been read, and
\* the document generated with options has no mapping.
C19_Witness ==
    /\ pc = "serving"
    /\ SOURCE_FILES = << << >>, << CodeSegment >> >>
    /\ SWAGGER_DOC.t = "object"
    /\ HasKey(SWAGGER_DOC, S_tags)
    /\ ~HasKey(SWAGGER_DOC, S_paths)
    /\ ~HasKey(SWAGGER_DOC, S_definitions)

\* The response is the JSON download of the document doc.
IsJsonOf(response, doc) ==
    /\ response.contentType = "application/json; charset=utf-8"
    /\ response.body = jsonStringify(doc, 2, 0)
    /\ readFlowDocument(response.body, TRUE) = Read(doc, Len(response.body) + 1)

\* The response is the YAML download of the document doc.
IsYamlOf(response, doc) ==
    /\ response.contentType = "application/x-yaml; charset=utf-8"
    /\ response.body = yamlSafeDump(doc)
    /\ readDocument(response.body).ok
    /\ readDocument(response.body).val = doc

\* C20: once the setup has returned, every step is a request to `/json` or
\* to `/yaml` that is answered with status 200 and the JSON text or the
\* YAML text of the document generated by the setup, a text that reads back
\* as that document; no request changes the document or generates it again.
C20_DownloadsServeTheOneDocument ==
    [][ pc = "serving" =>
            /\ pc' = "serving"
            /\ SWAGGER_DOC' = SWAGGER_DOC
            /\ document' = document
            /\ requests' = requests + 1
            /\ res'.status = 200
            /\ IsJsonOf(res', SWAGGER_DOC) \/ IsYamlOf(res', SWAGGER_DOC) ]_vars

\* A document with paths, definitions, tags and schemes has been downloaded
\* as JSON and then as YAML.
C20_Witness ==
    /\ pc = "serving"
    /\ requests = 2
    /\ res.status = 200
    /\ IsYamlOf(res, SWAGGER_DOC)
    /\ HasKey(SWAGGER_DOC, S_paths)
    /\ HasKey(SWAGGER_DOC, S_definitions)
    /\ HasKey(SWAGGER_DOC, S_tags)
    /\ HasKey(SWAGGER_DOC, S_schemes)

\* A block of another kind than `definition` and `path`, the empty kind
\* included.
IsOtherKind(b) == b.type \notin { Str(S_definition), Str(S_path) }
IsRecognizedKind(b) == ~IsOtherKind(b)

\* C21: a block whose declaration tag names neither `definition` nor `path`
\* has an empty payload, the body of the tag is not decoded, and a kind
\* that is not empty is the kind of the block; the document is the one
\* generated from the blocks of the two recognized kinds alone.
C21_OtherKindIsNotDecoded ==
    /\ \A i \in 1..Len(SOURCE_BLOCKS) :
           LET b  == SOURCE_BLOCKS[i]
               Ts == DeclarationTags(b.jsDoc)
               T  == Ts[Len(Ts)]
           IN  KindOf(T) \notin { S_definition, S_path } =>
                   /\ IsOtherKind(b)
                   /\ b.details = Undefined
                   /\ KindOf(T) # << >> => b.type = Str(KindOf(T))
    /\ pc # "scan" =>
           SWAGGER_DOC =
               generateSwaggerV2Document(SelectSeq(SOURCE_BLOCKS, IsRecognizedKind), document)

\* A tag of another kind with a body that decodes to a mapping has made a
\* block next to a Path block, and the document has the paths of the Path
\* block only.
C21_Witness ==
    /\ pc = "serving"
    /\ Len(SOURCE_BLOCKS) = 2
    /\ IsOtherKind(SOURCE_BLOCKS[1])
    /\ yamlOrJson(DeclarationTags(SOURCE_BLOCKS[1].jsDoc)[1].description).t = "object"
    /\ SOURCE_BLOCKS[1].details = Undefined
    /\ SOURCE_BLOCKS[2].type = Str(S_path)
    /\ SOURCE_BLOCKS[2].details.t = "object"
    /\ OwnKeys(DocPaths) = OwnKeys(SOURCE_BLOCKS[2].details)

\* C22: every block that parseSwaggerDocBlocks returns, and so every block
\* handed to generateSwaggerV2Document, has its `type` set to a string.
C22_EveryBlockHasAKind ==
    \A i \in 1..Len(SOURCE_BLOCKS) :
        /\ SOURCE_BLOCKS[i].type # Undefined
        /\ SOURCE_BLOCKS[i].type.t = "string"

\* The annotations of the files for which the body of the try does not
\* throw, in order.
Completes(A) == ~Throws(A)
completing(FILES) == SelectSeq(annotationsOf(FILES), Completes)

\* C23: an annotation for which the classification or the decoding throws
\* yields no block, and the blocks of the other annotations of its source
\* text, before and after it, are those the text yields without it, in the
\* same order.
C23_ThrowingAnnotationIsIsolated ==
    /\ SOURCE_BLOCKS = parseAnnotations(completing(SOURCE_FILES))
    /\ \A i \in 1..Len(SOURCE_BLOCKS) : Completes(SOURCE_BLOCKS[i].jsDoc)
    /\ \A f \in 1..Len(SOURCE_FILES) :
           LET ANNOTATIONS == parseJSDoc(SOURCE_FILES[f])
           IN  \A k \in 1..Len(ANNOTATIONS) :
                   Throws(ANNOTATIONS[k]) =>
                       /\ parseAnnotation(ANNOTATIONS[k]) = << >>
                       /\ parseSwaggerV2DocBlocksOpts(SOURCE_FILES[f], DebugOption(debug)).DOCS
                              = parseAnnotations(SubSeq(ANNOTATIONS, 1, k - 1))
                                \o parseAnnotations(SubSeq(ANNOTATIONS, k + 1, Len(ANNOTATIONS)))

\* A file has been read whose second annotation throws at the decoding of
\* its body, between a Path and a Definition annotation, and the blocks are
\* those of the two.
C23_Witness ==
    /\ Len(SOURCE_FILES) = 1
    /\ Len(parseJSDoc(SOURCE_FILES[1])) = 3
    /\ Throws(parseJSDoc(SOURCE_FILES[1])[2])
    /\ Len(SOURCE_BLOCKS) = 2
    /\ SOURCE_BLOCKS[1].type = Str(S_path)
    /\ SOURCE_BLOCKS[1].jsDoc = parseJSDoc(SOURCE_FILES[1])[1]
    /\ SOURCE_BLOCKS[2].type = Str(S_definition)
    /\ SOURCE_BLOCKS[2].jsDoc = parseJSDoc(SOURCE_FILES[1])[3]

\* C24: the value yamlOrJson returns tells the three cases apart: it is
\* undefined exactly when the text is empty after trimming, it is false
\* exactly when the text is not empty and neither parser decodes it, and a
\* decoded value is neither undefined nor false.
C24_PayloadIsTriState ==
    pc = "return" =>
        LET text      == toStringSafe(serializedData)
            decodable == yamlSafeLoad(text).ok \/ jsonParse(text).ok
        IN  /\ returned = Undefined <=> trim(text) = << >>
            /\ returned = False <=> (trim(text) # << >> /\ ~decodable)
            /\ (trim(text) # << >> /\ decodable) => returned \notin { Undefined, False }

\* The block made of the annotation A is among the blocks.
HasBlockOf(A) == \E i \in 1..Len(SOURCE_BLOCKS) : SOURCE_BLOCKS[i].jsDoc = A

reported(FILES, d) ==
    IF Truthy(d)
    THEN [ i \in 1..Len(SelectSeq(annotationsOf(FILES), Throws)) |-> ERROR_MESSAGE ]
    ELSE << >>

\* C27: parseSwaggerV2DocBlocks returns the same blocks for a source text
\* with `debug` on, off and unset, and with no options at all; the flag
\* decides only whether the error caught for an annotation is written with
\* console.error(), and the error is not thrown again: the setup goes on
\* and has the blocks of the annotations after it.
C27_DebugIsObservationalOnly ==
    /\ pc # "failed"
    /\ \A f \in 1..Len(SOURCE_FILES) :
           \A d \in DebugPool :
               parseSwaggerV2DocBlocksOpts(SOURCE_FILES[f], DebugOption(d)).DOCS
                   = parseSwaggerV2DocBlocksOpts(SOURCE_FILES[f], Undefined).DOCS
    /\ SOURCE_BLOCKS = parseAnnotations(completing(SOURCE_FILES))
    /\ console = reported(SOURCE_FILES, debug)
    /\ previous.made =>
           /\ previous.console = reported(previous.SOURCE_FILES, previous.debug)
           /\ previous.SOURCE_FILES = SOURCE_FILES => SOURCE_BLOCKS = previous.SOURCE_BLOCKS

\* A setup with `debug` on has reported the errors of two files; the setup
\* after it has read the same files with `debug` off, has reported nothing
\* and has the same blocks.
C27_Witness ==
    /\ previous.made
    /\ previous.debug = Bool(TRUE)
    /\ debug = Bool(FALSE)
    /\ Len(SOURCE_FILES) = 2
    /\ SOURCE_FILES[1] # SOURCE_FILES[2]
    /\ previous.SOURCE_FILES = SOURCE_FILES
    /\ previous.console = << ERROR_MESSAGE, ERROR_MESSAGE >>
    /\ console = << >>
    /\ Len(SOURCE_BLOCKS) = 4
    /\ SOURCE_BLOCKS = previous.SOURCE_BLOCKS

\* The sequence with the elements at i and i + 1 exchanged.
Exchanged(seq, i) ==
    [ k \in 1..Len(seq) |-> IF k = i THEN seq[i + 1] ELSE IF k = i + 1 THEN seq[i] ELSE seq[k] ]

\* Two blocks whose exchange changes neither the sequence of the Path
\* blocks nor the sequence of the Definition blocks.
Independent(a, b) ==
    /\ ~(IsKind(a, S_path) /\ IsKind(b, S_path))
    /\ ~(IsKind(a, S_definition) /\ IsKind(b, S_definition))

\* C29: the document depends only on the sequence of the Path blocks and
\* on the sequence of the Definition blocks: it is the document of the two
\* sequences put one after the other, in either order and without the
\* blocks of other kinds, and the document of every sequence that differs
\* from SOURCE_BLOCKS by the exchange of two neighbours that are not of the
\* same one of the two kinds.
C29_OnlyOrderWithinKindMatters ==
    pc # "scan" =>
        /\ SWAGGER_DOC = generateSwaggerV2Document(
                             pathBlocks(SOURCE_BLOCKS) \o definitionBlocks(SOURCE_BLOCKS),
                             document)
        /\ SWAGGER_DOC = generateSwaggerV2Document(
                             definitionBlocks(SOURCE_BLOCKS) \o pathBlocks(SOURCE_BLOCKS),
                             document)
        /\ \A i \in 1..(Len(SOURCE_BLOCKS) - 1) :
               Independent(SOURCE_BLOCKS[i], SOURCE_BLOCKS[i + 1]) =>
                   SWAGGER_DOC =
                       generateSwaggerV2Document(Exchanged(SOURCE_BLOCKS, i), document)

\* A Definition block stands between two Path blocks with payloads, and the
\* document has paths and definitions.
C29_Witness ==
    /\ pc = "serving"
    /\ Len(SOURCE_BLOCKS) = 3
    /\ IsKind(SOURCE_BLOCKS[1], S_path)
    /\ IsKind(SOURCE_BLOCKS[2], S_definition)
    /\ IsKind(SOURCE_BLOCKS[3], S_path)
    /\ \A i \in 1..3 : SOURCE_BLOCKS[i].details.t = "object"
    /\ Exchanged(SOURCE_BLOCKS, 2) # SOURCE_BLOCKS
    /\ Len(OwnKeys(DocPaths)) > 0
    /\ Len(OwnKeys(DocDefinitions)) > 0

\* The entries of the payloads of the blocks from the i-th on, in order,
\* under the keys as they are written.
RECURSIVE writtenEntries(_, _)
writtenEntries(BLOCKS, i) ==
    IF i > Len(BLOCKS) THEN << >>
    ELSE (IF Truthy(BLOCKS[i].details) THEN OwnEntries(BLOCKS[i].details) ELSE << >>)
             \o writtenEntries(BLOCKS, i + 1)

\* The entries written under a key that is `name` once trimmed.
Under(es, name) == SelectSeq(es, LAMBDA e : trim(e.k) = name)

\* The keys of the mapping are the trimmed keys of the entries, compared as
\* they are; each is trimmed; keys that are not array indices enumerate in
\* the order of their lowercased form, in which two keys that differ in
\* letter case only are equal.
KeysAreTrimmedKeysOf(mapping, es) ==
    /\ KeySet(mapping) = { trim(es[i].k) : i \in 1..Len(es) }
    /\ \A k \in KeySet(mapping) : trim(k) = k
    /\ \A i, j \in 1..Len(OwnKeys(mapping)) :
           LET x == OwnKeys(mapping)[i]
               y == OwnKeys(mapping)[j]
           IN  /\ (i < j /\ ~IsArrayIndex(x) /\ ~IsArrayIndex(y))
                      => ~StrLess(toLowerCase(y), toLowerCase(x))
               /\ (x # y /\ toLowerCase(x) = toLowerCase(y)) => compareValuesBy(x, y) = 0

\* C30: two keys of payloads are one entry of `paths`, or of `definitions`,
\* if and only if they are equal once trimmed, letter case kept.  The keys
\* of each mapping are the trimmed keys; a path entry has the keys of all
\* the sub-documents written under keys that trim to its key, and of no
\* other; a definition is the value written last under a key that trims
\* to its name.
C30_EntriesAreKeyedByTrimmedKey ==
    pc = "serving" =>
        LET ps == writtenEntries(pathBlocks(SOURCE_BLOCKS), 1)
            ds == writtenEntries(definitionBlocks(SOURCE_BLOCKS), 1)
        IN  /\ KeysAreTrimmedKeysOf(DocPaths, ps)
            /\ KeysAreTrimmedKeysOf(DocDefinitions, ds)
            /\ \A name \in KeySet(DocPaths) :
                   (\A i \in 1..Len(Under(ps, name)) : Under(ps, name)[i].val.t = "object")
                   => KeySet(Get(DocPaths, name))
                          = UNION { KeySet(Under(ps, name)[i].val) : i \in 1..Len(Under(ps, name)) }
            /\ \A name \in KeySet(DocDefinitions) :
                   Get(DocDefinitions, name) = Under(ds, name)[Len(Under(ds, name))].val

\* `/users` and `/users ` are written in two Path blocks and are one entry
\* with the keys of both, next to the entry `/Users`.
C30_Witness ==
    /\ pc = "serving"
    /\ Len(SOURCE_BLOCKS) = 3
    /\ { e.k : e \in { writtenEntries(pathBlocks(SOURCE_BLOCKS), 1)[i] :
                           i \in 1..Len(writtenEntries(pathBlocks(SOURCE_BLOCKS), 1)) } }
           = { K_users, K_users_sp, K_Users }
    /\ KeySet(DocPaths) = { K_users, K_Users }
    /\ KeySet(Get(DocPaths, K_users)) = { K_tags, K_put }
    /\ KeySet(Get(DocPaths, K_Users)) = { K_get }
    /\ KeySet(DocDefinitions) = { K_users }

(***************************************************************************)
(* The identity of the objects a call is given.  An object or an array of  *)
(* an argument carries a reference `ref`: the argument it belongs to (0    *)
(* for the options, i for the payload of block i) and the indices that     *)
(* lead to it.  A value that is copied by reference keeps its `ref`, a     *)
(* value built by the call ({}, [], filter, map, concat, JSON.parse) has   *)
(* none, and an assignment obj[key] = val keeps the `ref` of obj.          *)
(***************************************************************************)

RECURSIVE Referenced(_, _)
Referenced(x, ref) ==
    CASE x.t = "object" ->
            [t |-> "object", ref |-> ref,
             v |-> [ i \in 1..Len(x.v) |->
                       [k |-> x.v[i].k, val |-> Referenced(x.v[i].val, Append(ref, i))] ]]
      [] x.t = "array" ->
            [t |-> "array", ref |-> ref,
             v |-> [ i \in 1..Len(x.v) |-> Referenced(x.v[i], Append(ref, i)) ]]
      [] OTHER -> x

ReferencedBlocks(BLOCKS) ==
    [ i \in 1..Len(BLOCKS) |-> [BLOCKS[i] EXCEPT !.details = Referenced(@, << i >>)] ]

Arity(x) == IF x.t \in {"object", "array"} THEN Len(x.v) ELSE 0

Child(x, i) == IF x.t = "object" THEN x.v[i].val ELSE x.v[i]

\* The object of the arguments that a reference names.
RECURSIVE At(_, _)
At(x, path) == IF path = << >> THEN x ELSE At(Child(x, Head(path)), Tail(path))

ArgumentAt(BLOCKS, options, ref) ==
    At(IF Head(ref) = 0 THEN options ELSE BLOCKS[Head(ref)].details, Tail(ref))

\* The references of the objects of the arguments that x holds.
RECURSIVE Refs(_)
Refs(x) ==
    (IF "ref" \in DOMAIN x THEN { x.ref } ELSE {})
        \cup UNION { Refs(Child(x, i)) : i \in 1..Arity(x) }

\* Every object of the arguments that x holds is as the caller has passed it.
RECURSIVE Intact(_, _, _)
Intact(x, BLOCKS, options) ==
    /\ "ref" \in DOMAIN x => x = ArgumentAt(BLOCKS, options, x.ref)
    /\ \A i \in 1..Arity(x) : Intact(Child(x, i), BLOCKS, options)

\* x after the caller has emptied the object `ref` of the arguments.
RECURSIVE Emptied(_, _)
Emptied(x, ref) ==
    IF "ref" \in DOMAIN x /\ x.ref = ref THEN [x EXCEPT !.v = << >>]
    ELSE CASE x.t = "object" ->
                 [x EXCEPT !.v = [ i \in 1..Len(x.v) |->
                                     [k |-> x.v[i].k, val |-> Emptied(x.v[i].val, ref)] ]]
           [] x.t = "array" ->
                 [x EXCEPT !.v = [ i \in 1..Len(x.v) |-> Emptied(x.v[i], ref) ]]
           [] OTHER -> x

\* The references of all the objects of the arguments.
ArgumentRefs(BLOCKS, options) ==
    Refs(options) \cup UNION { Refs(BLOCKS[i].details) : i \in 1..Len(BLOCKS) }

\* DOC is the document as built and RETURNED the value of the call on the
\* arguments BLOCKS and options: the objects of the arguments that DOC
\* holds are as they were passed, RETURNED holds none of them, and it is
\* the same after the caller has emptied any of them.
NoSideEffect(BLOCKS, options, DOC, RETURNED) ==
    /\ Intact(DOC, BLOCKS, options)
    /\ Refs(RETURNED) = {}
    /\ \A ref \in ArgumentRefs(BLOCKS, options) : Emptied(RETURNED, ref) = RETURNED

\* C28: generateSwaggerV2Document leaves its arguments as they are and
\* returns a fresh value: no object of a payload or of the options is
\* written to, the returned document holds none of them, so that a later
\* change to one of them does not reach it, and it is the document that
\* the setup has stored.
C28_ArgumentsAreNeitherChangedNorShared ==
    pc = "serving" =>
        /\ NoSideEffect(ReferencedBlocks(SOURCE_BLOCKS), Referenced(document, << 0 >>),
                        buildDocument(ReferencedBlocks(SOURCE_BLOCKS),
                                      Referenced(document, << 0 >>)),
                        generateSwaggerV2Document(ReferencedBlocks(SOURCE_BLOCKS),
                                                  Referenced(document, << 0 >>)))
        /\ generateSwaggerV2Document(ReferencedBlocks(SOURCE_BLOCKS),
                                     Referenced(document, << 0 >>)) = SWAGGER_DOC

\* Before the last statement of the call, the document holds an object of
\* the options and an object of a payload themselves.
C28_Witness ==
    /\ pc = "serving"
    /\ \E ref \in Refs(buildDocument(ReferencedBlocks(SOURCE_BLOCKS),
                                      Referenced(document, << 0 >>))) : Head(ref) = 0
    /\ \E ref \in Refs(buildDocument(ReferencedBlocks(SOURCE_BLOCKS),
                                      Referenced(document, << 0 >>))) : Head(ref) > 0

====
